---------------------------- MODULE Spec2Model ----------------------------
(***************************************************************************)
(* The FAT engine of fsck_msdosfs (sbin/fsck_msdosfs/fat.c): the width     *)
(* codec, the bitmaps, readfat, checkchain, clearchain and checklost.      *)
(*                                                                         *)
(* Representation of cl_t.  A cl_t is a 32-bit unsigned word.  The         *)
(* integers used here are at most 31 bits wide, so a word w is carried as  *)
(* the integer with the same 32-bit two's-complement pattern: w itself     *)
(* when w < 2^31 and w - 2^32 otherwise (0xffffffff is -1, 0xfffffff7 is   *)
(* -9).  "x & (2^k - 1)" is then x % 2^k, "x | ~(2^k - 1)" of a value      *)
(* below 2^k is x - 2^k, and the unsigned comparisons of the source are    *)
(* U32Lt / U32Ge.                                                          *)
(*                                                                         *)
(* Representation of a bitmap.  long_bitmap_t.map is an array of           *)
(* LONG_BIT-bit words; it is carried as the set of the positions of its    *)
(* 1-bits, word i holding the positions i*LONG_BIT .. (i+1)*LONG_BIT - 1.  *)
(***************************************************************************)
EXTENDS Integers, Sequences, FiniteSets, TLC

VARIABLES
    rdonly,     \* the global "no writes" switch
    boot,       \* struct bootblock, the fields fat.c reads and writes
    disk,       \* the bytes of the primary FAT on the device, which a
                \* store into a mapped buffer changes
    env,        \* what mmap, malloc, read and calloc will answer
    fat,        \* struct fat_descriptor
    heap,       \* the allocations made by readfat that are still live
    pc,         \* position of the run: start, dir, lost, done, failed, abort,
                \* hang, fault; codec, codec_done for the accessor alone
    last,       \* record of the last readfat / checkchain / clearchain call
    sweep,      \* the locals of checklost while its loop runs
    dev,        \* the bytes of the device from offset 0 to the end of the
                \* last FAT copy, as lseek and write address them
    tally       \* the FAT readfat loaded and the chainsize results of
                \* the checkchain calls so far

vars == <<rdonly, boot, disk, env, fat, heap, pc, last, sweep, dev, tally>>

-----------------------------------------------------------------------------
(* Program constants (dosfs.h, ext.h, sys/limits.h), as fat.c uses them.   *)

CLUST_FREE == 0
CLUST_FIRST == 2
CLUST_BAD == -9
CLUST_EOFS == -8
CLUST_EOF == -1
CLUST_DEAD == -35725299
CLUST12_MASK == 4095
CLUST16_MASK == 65535
CLUST32_MASK == 268435455
FSOK == 0
FSFATMOD == 4
FSERROR == 8
FSFATAL == 16
FSDIRTY == 32
LONG_BIT == 64
FSINFO_UNKNOWN == -1

(* Bounds of the model: the clusters of the volumes whose every FAT        *)
(* content is explored, and the allocated clusters of the sparse volumes.  *)
MaxClusters == 5
SparseAllocated == 4

-----------------------------------------------------------------------------
(* 32-bit unsigned comparison and the status flags.                        *)

U32Lt(a, b) == IF (a >= 0) = (b >= 0) THEN a < b ELSE b < 0
U32Ge(a, b) == ~U32Lt(a, b)

\* Whether the oracle was asked prompt.
Asked(asks, prompt) == \E i \in 1 .. Len(asks) : asks[i].prompt = prompt

HasFlag(s, f) == (s \div f) % 2 = 1

BitOr(a, b) ==
    LET bit(f) == IF HasFlag(a, f) \/ HasFlag(b, f) THEN f ELSE 0
    IN  bit(1) + bit(2) + bit(4) + bit(8) + bit(16) + bit(32)

-----------------------------------------------------------------------------
(* Bitmaps.  Each operation returns the new bitmap; an assertion of the    *)
(* source is the predicate *_asserts of the same arguments.                *)

roundup2(x, y) == ((x + (y - 1)) \div y) * y

bitmap_get(lbp, cl) == cl \in lbp.map

bitmap_set_asserts(lbp, cl) == cl \notin lbp.map

bitmap_set(lbp, cl) ==
    [map |-> lbp.map \cup {cl}, count |-> lbp.count + 1]

bitmap_clear_asserts(lbp, cl) == cl \in lbp.map

bitmap_clear(lbp, cl) ==
    [map |-> lbp.map \ {cl}, count |-> lbp.count - 1]

\* The word test looking at the bit of cl alone.
bitmap_none_in_range_firstbit(lbp, cl) == cl \notin lbp.map

bitmap_none_in_range(lbp, cl) ==
    LET i == cl \div LONG_BIT
    IN  \A b \in lbp.map : b \div LONG_BIT # i

bitmap_count(lbp) == lbp.count

bitmap_ctor(bits, allone) ==
    IF allone
    THEN [map |-> 0 .. (roundup2(bits, LONG_BIT) - 1), count |-> bits]
    ELSE [map |-> {}, count |-> 0]

bitmap_dtor(lbp) == [map |-> {}, count |-> lbp.count]

fat_is_cl_used(fatd, cl) == bitmap_get(fatd.usedbitmap, cl)

fat_is_cl_head(fatd, cl) == bitmap_get(fatd.headbitmap, cl)

fat_set_cl_used(fatd, cl) ==
    [fatd EXCEPT !.usedbitmap = bitmap_set(@, cl)]

fat_clear_cl_used(fatd, cl) ==
    [fatd EXCEPT !.usedbitmap = bitmap_clear(@, cl)]

fat_clear_cl_head(fatd, cl) ==
    [fatd EXCEPT !.headbitmap = bitmap_clear(@, cl)]

fat_is_cl_head_in_range(fatd, cl) == ~bitmap_none_in_range(fatd.headbitmap, cl)

fat_get_head_count(fatd) == bitmap_count(fatd.headbitmap)

-----------------------------------------------------------------------------
(* The width codec.  buf is the FAT buffer, a function from byte offsets   *)
(* to bytes.                                                               *)

le16dec(buf, off) == buf[off] + 256 * buf[off + 1]

le16enc(buf, off, x) ==
    [buf EXCEPT ![off] = x % 256, ![off + 1] = (x \div 256) % 256]

\* The 32-bit word at off, in the two's-complement reading.
le32dec(buf, off) ==
    buf[off] + 256 * buf[off + 1] + 65536 * buf[off + 2]
        + 16777216 * (IF buf[off + 3] >= 128 THEN buf[off + 3] - 256
                                             ELSE buf[off + 3])

le32enc(buf, off, x) ==
    [buf EXCEPT ![off] = x % 256,
                ![off + 1] = (x \div 256) % 256,
                ![off + 2] = (x \div 65536) % 256,
                ![off + 3] = (x \div 16777216) % 256]

\* if (retval >= (CLUST_BAD & mask)) retval |= ~mask;
SignExtend(retval, mask) ==
    IF retval >= CLUST_BAD % (mask + 1) THEN retval - (mask + 1) ELSE retval

fat_get_fat12_ptr(cl) == cl + (cl \div 2)

fat_get_fat12_next(buf, cl) ==
    LET p == fat_get_fat12_ptr(cl)
        w == le16dec(buf, p)
        retval == (IF cl % 2 = 1 THEN w \div 16 ELSE w) % (CLUST12_MASK + 1)
    IN  SignExtend(retval, CLUST12_MASK)

\* The FAT12 encoder storing the value without reading the 4 bits of the
\* neighbouring cluster back in.
fat_set_fat12_next_clobber(buf, cl, nextcl) ==
    LET p == fat_get_fat12_ptr(cl)
        n == nextcl % (CLUST12_MASK + 1)
        enc == IF cl % 2 = 0 THEN n ELSE n * 16
    IN  le16enc(buf, p, enc)

fat_set_fat12_next(buf, cl, nextcl) ==
    LET p == fat_get_fat12_ptr(cl)
        n == nextcl % (CLUST12_MASK + 1)
        enc == IF cl % 2 = 0
               THEN n + ((buf[p + 1] \div 16) * 16) * 256
               ELSE n * 16 + (buf[p] % 16)
    IN  le16enc(buf, p, enc)

fat_get_fat16_ptr(cl) == cl * 2

fat_get_fat16_next(buf, cl) ==
    SignExtend(le16dec(buf, fat_get_fat16_ptr(cl)) % (CLUST16_MASK + 1),
               CLUST16_MASK)

fat_set_fat16_next(buf, cl, nextcl) ==
    le16enc(buf, fat_get_fat16_ptr(cl), nextcl % (CLUST16_MASK + 1))

fat_get_fat32_ptr(cl) == cl * 4

fat_get_fat32_next(buf, cl) ==
    SignExtend(le32dec(buf, fat_get_fat32_ptr(cl)) % (CLUST32_MASK + 1),
               CLUST32_MASK)

fat_set_fat32_next(buf, cl, nextcl) ==
    le32enc(buf, fat_get_fat32_ptr(cl), nextcl % (CLUST32_MASK + 1))

fat_is_cl_valid(b, cl) ==
    U32Ge(cl, CLUST_FIRST) /\ U32Lt(cl, b.NumClusters)

\* The generic read accessor: CLUST_DEAD for an invalid cluster or mask.
fat_get_cl_next(fatd, b, cl) ==
    IF U32Lt(cl, CLUST_FIRST) \/ U32Ge(cl, b.NumClusters)
    THEN CLUST_DEAD
    ELSE CASE b.ClustMask = CLUST12_MASK -> fat_get_fat12_next(fatd.fatbuf, cl)
           [] b.ClustMask = CLUST16_MASK -> fat_get_fat16_next(fatd.fatbuf, cl)
           [] b.ClustMask = CLUST32_MASK -> fat_get_fat32_next(fatd.fatbuf, cl)
           [] OTHER -> CLUST_DEAD

\* The generic write accessor without the test of rdonly.
fat_set_cl_next_norefuse(fatd, b, rd, cl, nextcl) ==
    IF U32Lt(cl, CLUST_FIRST) \/ U32Ge(cl, b.NumClusters)
    THEN [ret |-> FSFATAL, fatbuf |-> fatd.fatbuf]
    ELSE CASE b.ClustMask = CLUST12_MASK ->
                [ret |-> 0, fatbuf |-> fat_set_fat12_next(fatd.fatbuf, cl, nextcl)]
           [] b.ClustMask = CLUST16_MASK ->
                [ret |-> 0, fatbuf |-> fat_set_fat16_next(fatd.fatbuf, cl, nextcl)]
           [] b.ClustMask = CLUST32_MASK ->
                [ret |-> 0, fatbuf |-> fat_set_fat32_next(fatd.fatbuf, cl, nextcl)]
           [] OTHER -> [ret |-> FSFATAL, fatbuf |-> fatd.fatbuf]

\* The generic write accessor: [ret, fatbuf], the status and the buffer
\* after the call.
fat_set_cl_next(fatd, b, rd, cl, nextcl) ==
    IF rd
    THEN [ret |-> FSFATAL, fatbuf |-> fatd.fatbuf]
    ELSE IF U32Lt(cl, CLUST_FIRST) \/ U32Ge(cl, b.NumClusters)
    THEN [ret |-> FSFATAL, fatbuf |-> fatd.fatbuf]
    ELSE CASE b.ClustMask = CLUST12_MASK ->
                [ret |-> 0, fatbuf |-> fat_set_fat12_next(fatd.fatbuf, cl, nextcl)]
           [] b.ClustMask = CLUST16_MASK ->
                [ret |-> 0, fatbuf |-> fat_set_fat16_next(fatd.fatbuf, cl, nextcl)]
           [] b.ClustMask = CLUST32_MASK ->
                [ret |-> 0, fatbuf |-> fat_set_fat32_next(fatd.fatbuf, cl, nextcl)]
           [] OTHER -> [ret |-> FSFATAL, fatbuf |-> fatd.fatbuf]

-----------------------------------------------------------------------------
(* The FAT descriptor and the loader.                                      *)

NoBitmap == [map |-> {}, count |-> 0]

\* The descriptor as calloc leaves it.
NoFat ==
    [fatbuf |-> <<>>, usedbitmap |-> NoBitmap, headbitmap |-> NoBitmap,
     is_mmapped |-> FALSE, fatsize |-> 0]

\* _readfat: [ok, fat, heap].  mmap first; on failure malloc, lseek and read.
\* A failed lseek or read frees the buffer; a failed malloc leaves none.
readfat_load(fatd, b, dsk, e, hp) ==
    LET sized == [fatd EXCEPT !.fatsize = b.FATsecs * b.bpbBytesPerSec,
                              !.is_mmapped = FALSE]
    IN  IF e.mmap
        THEN [ok |-> TRUE,
              fat |-> [sized EXCEPT !.fatbuf = dsk, !.is_mmapped = TRUE],
              heap |-> hp \cup {"fatbuf"}]
        ELSE IF ~e.malloc
        THEN [ok |-> FALSE, fat |-> sized, heap |-> hp]
        ELSE IF ~e.read
        THEN [ok |-> FALSE, fat |-> sized, heap |-> hp]
        ELSE [ok |-> TRUE, fat |-> [sized EXCEPT !.fatbuf = dsk],
              heap |-> hp \cup {"fatbuf"}]

releasefat(fatd) == [fatd EXCEPT !.fatbuf = <<>>]

\* The test of readfat on the first bytes: TRUE when they are not the clean
\* signature of the width.
SigNotClean(buffer, b) ==
    \/ buffer[0] # b.bpbMedia
    \/ buffer[1] # 255
    \/ buffer[2] # 255
    \/ (b.ClustMask = CLUST16_MASK /\ buffer[3] # 255)
    \/ (b.ClustMask = CLUST32_MASK
        /\ (\/ buffer[3] % 16 # 15
            \/ buffer[4] # 255
            \/ buffer[5] # 255
            \/ buffer[6] # 255
            \/ buffer[7] % 16 # 15))

\* The dirty pattern without the test of the media byte.
SigDirty_nomedia(buffer, b) ==
    /\ buffer[1] = 255
    /\ buffer[2] = 255
    /\ \/ (b.ClustMask = CLUST16_MASK /\ buffer[3] = 127)
       \/ (b.ClustMask = CLUST32_MASK
           /\ buffer[3] = 15 /\ buffer[4] = 255
           /\ buffer[5] = 255 /\ buffer[6] = 255
           /\ buffer[7] = 7)

\* The Windows 95 OSR2 pattern of a volume that was not shut down cleanly.
SigDirty(buffer, b) ==
    /\ buffer[0] = b.bpbMedia
    /\ buffer[1] = 255
    /\ buffer[2] = 255
    /\ \/ (b.ClustMask = CLUST16_MASK /\ buffer[3] = 127)
       \/ (b.ClustMask = CLUST32_MASK
           /\ buffer[3] = 15 /\ buffer[4] = 255
           /\ buffer[5] = 255 /\ buffer[6] = 255
           /\ buffer[7] = 7)

\* The bytes written when the oracle answers yes to "Correct".
SigCorrect(buffer, b) ==
    LET three == [buffer EXCEPT ![0] = b.bpbMedia, ![1] = 255, ![2] = 255]
    IN  CASE b.ClustMask = CLUST16_MASK -> [three EXCEPT ![3] = 255]
          [] b.ClustMask = CLUST32_MASK ->
                [three EXCEPT ![3] = 15, ![4] = 255, ![5] = 255,
                              ![6] = 255, ![7] = 15]
          [] OTHER -> three

\* The signature part of readfat: [fatbuf, ret, asks].
readfat_signature(fatd, b, correct) ==
    IF SigNotClean(fatd.fatbuf, b)
    THEN IF SigDirty(fatd.fatbuf, b)
         THEN [fatbuf |-> fatd.fatbuf, ret |-> BitOr(FSOK, FSDIRTY),
               asks |-> <<>>]
         ELSE [fatbuf |-> IF correct THEN SigCorrect(fatd.fatbuf, b)
                                     ELSE fatd.fatbuf,
               ret |-> FSOK,
               asks |-> <<[prompt |-> "Correct", cl |-> 0, ans |-> correct]>>]
    ELSE [fatbuf |-> fatd.fatbuf, ret |-> FSOK, asks |-> <<>>]

\* readfat keeping the counters it was called with.
readfat_noreset(b) == b

\* boot->NumFree = boot->NumBad = 0;
readfat_reset(b) == [b EXCEPT !.NumFree = 0, !.NumBad = 0]

\* The scan clearing the head bit of a successor without testing it.
readfat_scan_link_notest(fatd, nextcl) ==
    fat_clear_cl_head(fatd, nextcl)

\* The scan leaving the head bit of a successor alone.
readfat_scan_link_keep(fatd, nextcl) == fatd

\* The scan on an entry that names the valid cluster nextcl: nextcl is not
\* the head of a chain.
readfat_scan_link(fatd, nextcl) ==
    IF fat_is_cl_head(fatd, nextcl)
    THEN fat_clear_cl_head(fatd, nextcl)
    ELSE fatd

\* The scan offering a truncation on out of range successors only.
readfat_scan_offers_range(b, nextcl) ==
    U32Ge(nextcl, b.NumClusters) /\ U32Lt(nextcl, CLUST_EOFS)

\* nextcl < CLUST_FIRST || (nextcl >= NumClusters && nextcl < CLUST_EOFS),
\* tested after FREE and BAD were dealt with.
readfat_scan_offers(b, nextcl) ==
    \/ U32Lt(nextcl, CLUST_FIRST)
    \/ (U32Ge(nextcl, b.NumClusters) /\ U32Lt(nextcl, CLUST_EOFS))

\* One iteration of the scan of readfat, on cluster cl.  st is
\* [fat, boot, ret, asks]; yes is the set of clusters at which the oracle
\* answers yes to "Truncate".
readfat_scan_step(st, rd, cl, yes) ==
    LET nextcl == fat_get_cl_next(st.fat, st.boot, cl)
    IN  IF nextcl = CLUST_FREE
        THEN [st EXCEPT !.fat = IF fat_is_cl_head(st.fat, cl)
                                THEN fat_clear_cl_head(st.fat, cl) ELSE @,
                        !.boot.NumFree = @ + 1]
        ELSE IF nextcl = CLUST_BAD
        THEN [st EXCEPT !.fat = IF fat_is_cl_head(st.fat, cl)
                                THEN fat_clear_cl_head(st.fat, cl) ELSE @,
                        !.boot.NumBad = @ + 1]
        ELSE IF readfat_scan_offers(st.boot, nextcl)
        THEN IF cl \in yes
             THEN [st EXCEPT
                     !.fat.fatbuf =
                        fat_set_cl_next(st.fat, st.boot, rd, cl, CLUST_EOF).fatbuf,
                     !.ret = BitOr(@, FSFATMOD),
                     !.asks = Append(@, [prompt |-> "Truncate", cl |-> cl,
                                         ans |-> TRUE])]
             ELSE [st EXCEPT
                     !.asks = Append(@, [prompt |-> "Truncate", cl |-> cl,
                                         ans |-> FALSE])]
        ELSE IF U32Lt(nextcl, st.boot.NumClusters)
        THEN [st EXCEPT !.fat = readfat_scan_link(st.fat, nextcl)]
        ELSE st

RECURSIVE readfat_scan(_, _, _, _)
\* for (cl = CLUST_FIRST; cl < boot->NumClusters; cl++)
readfat_scan(st, rd, cl, yes) ==
    IF cl < st.boot.NumClusters
    THEN readfat_scan(readfat_scan_step(st, rd, cl, yes), rd, cl + 1, yes)
    ELSE st

\* readfat: [ret, fat, boot, heap, asks, fp, fault, mid].  mid is the
\* descriptor when the scan starts.  fp tells whether a
\* descriptor is handed to the caller.  The FAT is mapped without
\* PROT_WRITE when rdonly is set: the stores that correct the signature
\* then end the process with a memory fault, and readfat does not return.
readfat(b, dsk, e, rd, correct, yes) ==
    LET b0 == readfat_reset(b)
        fail(hp) == [ret |-> FSFATAL, fat |-> NoFat, boot |-> b0,
                     heap |-> hp, asks |-> <<>>, fp |-> FALSE,
                     fault |-> FALSE, mid |-> NoFat]
    IN  IF ~e.calloc
        THEN fail({})
        ELSE
        LET ld == readfat_load(NoFat, b0, dsk, e, {"fat"})
        IN  IF ~ld.ok
            THEN fail(ld.heap)
            ELSE IF ~e.usedmap
            THEN fail({})
            ELSE IF ~e.headmap
            THEN fail({})
            ELSE
            LET f1 == [ld.fat EXCEPT
                         !.usedbitmap = bitmap_ctor(b0.NumClusters, FALSE),
                         !.headbitmap = bitmap_ctor(b0.NumClusters, TRUE)]
                sg == readfat_signature(f1, b0, correct)
                st == readfat_scan([fat |-> [f1 EXCEPT !.fatbuf = sg.fatbuf],
                                    boot |-> b0, ret |-> sg.ret,
                                    asks |-> sg.asks],
                                   rd, CLUST_FIRST, yes)
            IN  IF rd /\ f1.is_mmapped /\ Asked(sg.asks, "Correct") /\ correct
                THEN [ret |-> FSOK, fat |-> f1, boot |-> b0,
                      heap |-> ld.heap \cup {"usedbitmap", "headbitmap"},
                      asks |-> sg.asks, fp |-> FALSE, fault |-> TRUE,
                      mid |-> f1]
                ELSE IF HasFlag(st.ret, FSFATAL)
                THEN [ret |-> st.ret, fat |-> NoFat, boot |-> st.boot,
                      heap |-> {}, asks |-> st.asks, fp |-> FALSE,
                      fault |-> FALSE, mid |-> NoFat]
                ELSE [ret |-> st.ret, fat |-> st.fat, boot |-> st.boot,
                      heap |-> ld.heap \cup {"usedbitmap", "headbitmap"},
                      asks |-> st.asks, fp |-> TRUE, fault |-> FALSE,
                      mid |-> [f1 EXCEPT !.fatbuf = sg.fatbuf]]

\* The clusters at which the scan of this FAT offers a truncation.
ScanOffers(b, dsk, e, rd, correct) ==
    LET r == readfat(b, dsk, e, rd, correct, {})
    IN  {r.asks[i].cl : i \in {j \in 1 .. Len(r.asks) :
                                  r.asks[j].prompt = "Truncate"}}

-----------------------------------------------------------------------------
(* checkchain and clearchain.                                              *)

\* truncate_at answering yes without storing the end of file mark.
truncate_at_nowrite(fatd, b, rd, current_cl, chainsize, ans) ==
    IF ans
    THEN [fat |-> fatd,
          chainsize |-> chainsize + 1,
          ret |-> FSFATMOD,
          asks |-> <<[prompt |-> "Truncate", cl |-> current_cl, ans |-> TRUE]>>]
    ELSE [fat |-> fatd, chainsize |-> chainsize, ret |-> FSERROR,
          asks |-> <<[prompt |-> "Truncate", cl |-> current_cl, ans |-> FALSE]>>]

\* truncate_at storing FREE where the chain is to end.
truncate_at_free(fatd, b, rd, current_cl, chainsize, ans) ==
    IF ans
    THEN [fat |-> [fatd EXCEPT !.fatbuf =
                     fat_set_cl_next(fatd, b, rd, current_cl, CLUST_FREE).fatbuf],
          chainsize |-> chainsize + 1,
          ret |-> FSFATMOD,
          asks |-> <<[prompt |-> "Truncate", cl |-> current_cl, ans |-> TRUE]>>]
    ELSE [fat |-> fatd, chainsize |-> chainsize, ret |-> FSERROR,
          asks |-> <<[prompt |-> "Truncate", cl |-> current_cl, ans |-> FALSE]>>]

\* truncate_at answering yes without counting the cluster it ends at.
truncate_at_nocount(fatd, b, rd, current_cl, chainsize, ans) ==
    IF ans
    THEN [fat |-> [fatd EXCEPT !.fatbuf =
                     fat_set_cl_next(fatd, b, rd, current_cl, CLUST_EOF).fatbuf],
          chainsize |-> chainsize,
          ret |-> FSFATMOD,
          asks |-> <<[prompt |-> "Truncate", cl |-> current_cl, ans |-> TRUE]>>]
    ELSE [fat |-> fatd, chainsize |-> chainsize, ret |-> FSERROR,
          asks |-> <<[prompt |-> "Truncate", cl |-> current_cl, ans |-> FALSE]>>]

\* truncate_at: [fat, chainsize, ret, asks].  The status of fat_set_cl_next
\* is not looked at.
truncate_at(fatd, b, rd, current_cl, chainsize, ans) ==
    IF ans
    THEN [fat |-> [fatd EXCEPT !.fatbuf =
                     fat_set_cl_next(fatd, b, rd, current_cl, CLUST_EOF).fatbuf],
          chainsize |-> chainsize + 1,
          ret |-> FSFATMOD,
          asks |-> <<[prompt |-> "Truncate", cl |-> current_cl, ans |-> TRUE]>>]
    ELSE [fat |-> fatd, chainsize |-> chainsize, ret |-> FSERROR,
          asks |-> <<[prompt |-> "Truncate", cl |-> current_cl, ans |-> FALSE]>>]

RECURSIVE checkchain_walk(_, _, _, _, _, _, _)
\* The loop of checkchain and what follows it, from current_cl on.
\* iters counts the executions of the loop body, the one that returns on
\* a cross-link included.
checkchain_walk(fatd, b, rd, current_cl, chainsize, iters, ans) ==
    LET next_cl == fat_get_cl_next(fatd, b, current_cl)
        done(t) == [fat |-> t.fat, ret |-> t.ret, chainsize |-> t.chainsize,
                    asks |-> t.asks, cur |-> current_cl, next |-> next_cl,
                    iters |-> iters]
    IN  IF fat_is_cl_valid(b, next_cl)
        THEN IF fat_is_cl_used(fatd, next_cl)
             THEN [done(truncate_at(fatd, b, rd, current_cl, chainsize, ans))
                     EXCEPT !.iters = iters + 1]
             ELSE checkchain_walk(fat_set_cl_used(fatd, next_cl), b, rd,
                                  next_cl, chainsize + 1, iters + 1, ans)
        ELSE IF U32Ge(next_cl, CLUST_EOFS)
        THEN [fat |-> fatd, ret |-> FSOK, chainsize |-> chainsize + 1,
              asks |-> <<>>, cur |-> current_cl, next |-> next_cl,
              iters |-> iters]
        ELSE done(truncate_at(fatd, b, rd, current_cl, chainsize, ans))

\* The three assertions at the head of checkchain.
checkchain_asserts(fatd, b, head) ==
    /\ fat_is_cl_valid(b, head)
    /\ fat_is_cl_head(fatd, head)
    /\ ~fat_is_cl_used(fatd, head)

\* The head losing its head bit without being marked used.
checkchain_mark_nouse(fatd, head) ==
    fat_clear_cl_head(fatd, head)

\* The head marked used with its head bit left set.
checkchain_mark_keephead(fatd, head) ==
    fat_set_cl_used(fatd, head)

\* fat_clear_cl_head(fat, head); fat_set_cl_used(fat, head);
checkchain_mark(fatd, head) ==
    fat_set_cl_used(fat_clear_cl_head(fatd, head), head)

\* checkchain counting the head before the walk starts.
checkchain_startone(fatd, b, rd, head, ans) ==
    checkchain_walk(checkchain_mark(fatd, head), b, rd, head, 1, 0, ans)

\* checkchain(fat, head, &chainsize), the oracle answering ans to the offer
\* it may make: [fat, ret, chainsize, asks, cur, next, iters].
checkchain(fatd, b, rd, head, ans) ==
    checkchain_walk(checkchain_mark(fatd, head), b, rd, head, 0, 0, ans)

RECURSIVE clearchain_loop(_, _, _, _, _, _)
\* The loop of clearchain at its test, with the locals current_cl and
\* next_cl.  fuel bounds the iterations: [fat, boot, hang].
clearchain_loop(fatd, b, rd, current_cl, next_cl, fuel) ==
    IF ~fat_is_cl_valid(b, current_cl)
    THEN [fat |-> fatd, boot |-> b, hang |-> FALSE]
    ELSE IF fuel = 0
    THEN [fat |-> fatd, boot |-> b, hang |-> TRUE]
    ELSE
    LET f1 == [fatd EXCEPT !.fatbuf =
                 fat_set_cl_next(fatd, b, rd, current_cl, CLUST_FREE).fatbuf]
        b1 == [b EXCEPT !.NumFree = @ + 1]
        f2 == IF fat_is_cl_used(f1, current_cl)
              THEN fat_clear_cl_used(f1, current_cl) ELSE f1
    IN  clearchain_loop(f2, b1, rd, next_cl,
                        fat_get_cl_next(f2, b1, next_cl), fuel - 1)

\* clearchain(fat, head).  next_cl is read by the first "current_cl =
\* next_cl" before anything was stored in it: uninit is the value found
\* there.  With the FAT unchanged by the loop (rdonly) a walk that has not
\* ended after every cluster was visited never ends: hang.
clearchain(fatd, b, rd, head, uninit) ==
    clearchain_loop(fatd, b, rd, head, uninit, 2 * b.NumClusters)

\* The values the uninitialised next_cl of clearchain is drawn from: every
\* valid cluster, and CLUST_FREE for the values that are no valid cluster,
\* on all of which the loop ends at its next test.
UninitValues(b) ==
    {CLUST_FREE} \cup (CLUST_FIRST .. (b.NumClusters - 1))

\* The device after the stores made into the buffer of fatd.  mmap maps the
\* first FAT of the device MAP_SHARED: a store into a mapped buffer is a
\* store into the device.  A buffer from malloc is private.
mmap_shared(d, b, fatd) ==
    LET off0 == b.bpbResSectors * b.bpbBytesPerSec
    IN  IF fatd.is_mmapped
        THEN [off \in DOMAIN d |->
                 IF off >= off0 /\ (off - off0) \in DOMAIN fatd.fatbuf
                 THEN fatd.fatbuf[off - off0] ELSE d[off]]
        ELSE d

\* The first FAT of the device d, where _readfat maps or reads it.
PrimaryFat(d, b) ==
    LET off0 == b.bpbResSectors * b.bpbBytesPerSec
    IN  [i \in 0 .. (b.FATsecs * b.bpbBytesPerSec - 1) |-> d[off0 + i]]

-----------------------------------------------------------------------------
(* The run: readfat, then the directory traversal calling checkchain (and  *)
(* clearchain on a chain it has just checked), then checklost.             *)

Snap(fatd) ==
    [fatbuf |-> fatd.fatbuf, used |-> fatd.usedbitmap.map,
     head |-> fatd.headbitmap.map]

NoLast ==
    [op |-> "none", head |-> 0, ret |-> 0, chainsize |-> 0, asks |-> <<>>,
     cur |-> 0, next |-> 0, iters |-> 0,
     pre |-> Snap(NoFat), post |-> Snap(NoFat), prefree |-> 0, prebad |-> 0,
     prefsfree |-> 0, prefsnext |-> 0, io |-> <<>>, mid |-> Snap(NoFat)]

\* checkdirty, fat.c:469-530.  o tells whether malloc, lseek and read
\* succeed; d is the device, whose first FAT sector is read.
\* The bytes of the sector are those of the layout the code understands.
checkdirty_understood(buffer, b) ==
    /\ buffer[0] = b.bpbMedia
    /\ buffer[1] = 255
    /\ IF b.ClustMask = CLUST16_MASK
       THEN buffer[2] \div 8 = 31 /\ buffer[3] % 64 = 63
       ELSE /\ buffer[2] = 255
            /\ buffer[3] % 16 = 15
            /\ buffer[4] \div 8 = 31
            /\ buffer[5] = 255
            /\ buffer[6] = 255
            /\ buffer[7] % 4 = 3

\* The clean flag and the no-error flag are both set.
checkdirty_flags(buffer, b) ==
    IF b.ClustMask = CLUST16_MASK
    THEN buffer[3] \div 64 = 3
    ELSE (buffer[7] \div 4) % 4 = 3

checkdirty(b, d, o) ==
    IF b.ClustMask # CLUST16_MASK /\ b.ClustMask # CLUST32_MASK THEN 0
    ELSE IF ~o.malloc THEN 1
    ELSE IF ~o.lseek THEN 0
    ELSE IF ~o.read THEN 0
    ELSE LET off == b.bpbResSectors * b.bpbBytesPerSec
             buffer == [i \in 0 .. (b.bpbBytesPerSec - 1) |-> d[off + i]]
         IN  IF ~checkdirty_understood(buffer, b) THEN 0
             ELSE IF checkdirty_flags(buffer, b) THEN 1 ELSE 0

\* writefat, fat.c:884-907.  outs[i] is what the device answers for copy i:
\* whether lseek returns off, and how many bytes write reports.  write is
\* not called when the seek fails (the || of the test).  The bytes a short
\* write did transfer are on the device.
writefat_start(fatd) == IF fatd.is_mmapped THEN 1 ELSE 0

writefat_offset(b, i) == (b.bpbResSectors + i * b.FATsecs) * b.bpbBytesPerSec

\* A status that forgets the failures before the last copy.
writefat_status_lastwins(ret, seekok, written, fatsz) ==
    IF ~seekok \/ written # fatsz THEN FSFATAL ELSE FSOK

\* ret = FSFATAL on a failed copy, ret kept otherwise.
writefat_status(ret, seekok, written, fatsz) ==
    IF ~seekok \/ written # fatsz THEN FSFATAL ELSE ret

RECURSIVE writefat_loop(_, _, _, _, _, _, _)
writefat_loop(fatd, b, d, outs, i, ret, io) ==
    IF i >= b.bpbFATs THEN [ret |-> ret, dev |-> d, io |-> io]
    ELSE LET off == writefat_offset(b, i)
             fatsz == fatd.fatsize
             seekok == outs[i].seek
             written == IF seekok THEN outs[i].written ELSE 0
             d1 == [o \in DOMAIN d |->
                      IF seekok /\ o >= off /\ o < off + written
                      THEN fatd.fatbuf[o - off] ELSE d[o]]
         IN  writefat_loop(fatd, b, d1, outs, i + 1,
                           writefat_status(ret, seekok, written, fatsz),
                           Append(io, [copy |-> i, off |-> off,
                                       seek |-> seekok, wrote |-> seekok,
                                       size |-> fatsz, written |-> written]))

writefat(fatd, b, d, outs) ==
    writefat_loop(fatd, b, d, outs, writefat_start(fatd), FSOK, <<>>)

\* What is kept of the run: the bytes of the primary FAT when readfat was
\* called, and of the checkchain calls made since: the sum of the
\* chainsize results, how many calls returned FSERROR, and for every head
\* the clusters the call marked used.
NoTally ==
    [loaded |-> <<>>, calls |-> 0, chainsize |-> 0, errors |-> 0,
     chains |-> {}]

\* The call checkchain(head) on the descriptor fatd gave r.
Tallied(t, fatd, head, r) ==
    [loaded |-> t.loaded,
     calls |-> t.calls + 1, chainsize |-> t.chainsize + r.chainsize,
     errors |-> t.errors + (IF r.ret = FSERROR THEN 1 ELSE 0),
     chains |-> t.chains \cup
                {[head |-> head,
                  marked |-> r.fat.usedbitmap.map \ fatd.usedbitmap.map]}]

NoEvent ==
    [head |-> 0, ccret |-> 0, chainlength |-> 0, reconnected |-> FALSE,
     rcret |-> 0, askedclear |-> FALSE, clearans |-> FALSE,
     cleared |-> FALSE]

NoSweep ==
    [head |-> 0, chains |-> 0, mod |-> 0, ret |-> 0, calls |-> <<>>,
     heads0 |-> {}, fatbuf0 |-> <<>>, skips |-> 0, broke |-> FALSE,
     wrote |-> FALSE, ev |-> NoEvent]

ValidClusters(b) == CLUST_FIRST .. (b.NumClusters - 1)

\* An oracle, a collaborator or an uninitialised local that is not
\* consulted is not drawn: these stand for "not consulted".
NoAnswer == CHOOSE a \in env.answers : TRUE
NoClear == CHOOSE a \in env.clear : TRUE
NoStatus == CHOOSE r \in env.reconnect : TRUE
NoUninit == CHOOSE u \in env.uninit : TRUE

ReadFat ==
    /\ pc = "start"
    /\ \E correct \in env.answers :
       \E yes \in SUBSET ScanOffers(boot, disk, env, rdonly, correct) :
          /\ \A c \in ScanOffers(boot, disk, env, rdonly, correct) :
                (c \in yes) \in env.answers
          /\ LET r == readfat(boot, disk, env, rdonly, correct, yes)
             IN  /\ Asked(r.asks, "Correct") \/ correct = NoAnswer
                 /\ fat' = r.fat
                 /\ boot' = r.boot
                 /\ heap' = r.heap
                 /\ pc' = IF r.fault THEN "fault"
                          ELSE IF r.fp THEN "dir" ELSE "failed"
                 /\ last' = [NoLast EXCEPT
                               !.op = "readfat", !.ret = r.ret,
                               !.asks = r.asks,
                               !.pre = [Snap(NoFat) EXCEPT
                                          !.fatbuf = IF r.fp THEN disk ELSE <<>>],
                               !.post = Snap(r.fat),
                               !.mid = Snap(r.mid),
                               !.prefree = boot.NumFree,
                               !.prebad = boot.NumBad]
    /\ tally' = [NoTally EXCEPT !.loaded = disk]
    /\ dev' = mmap_shared(dev, boot, fat')
    /\ disk' = PrimaryFat(dev', boot)
    /\ UNCHANGED <<rdonly, env, sweep>>

\* The caller of checkchain in the directory traversal tests the head bit
\* of a valid cluster first; the assertions of checkchain abort the run.
CheckChain ==
    /\ pc = "dir"
    /\ \E h \in ValidClusters(boot) : \E ans \in env.answers :
          /\ fat_is_cl_head(fat, h)
          /\ IF ~checkchain_asserts(fat, boot, h)
             THEN /\ ans = NoAnswer
                  /\ pc' = "abort"
                  /\ last' = [NoLast EXCEPT !.op = "assert", !.head = h]
                  /\ UNCHANGED <<fat, tally>>
             ELSE LET r == checkchain(fat, boot, rdonly, h, ans)
                  IN  /\ Asked(r.asks, "Truncate") \/ ans = NoAnswer
                      /\ fat' = r.fat
                      /\ pc' = "dir"
                      /\ last' = [NoLast EXCEPT
                                    !.op = "checkchain", !.head = h,
                                    !.ret = r.ret, !.chainsize = r.chainsize,
                                    !.asks = r.asks, !.cur = r.cur,
                                    !.next = r.next, !.iters = r.iters,
                                    !.pre = Snap(fat), !.post = Snap(r.fat),
                                    !.prefree = boot.NumFree,
                                    !.prebad = boot.NumBad]
                      /\ tally' = Tallied(tally, fat, h, r)
    /\ dev' = mmap_shared(dev, boot, fat')
    /\ disk' = PrimaryFat(dev', boot)
    /\ UNCHANGED <<rdonly, boot, env, heap, sweep>>

\* The bitmap calls fat.c offers to the other files of the checker, made by
\* the caller between readfat and checklost on a valid cluster.  The
\* assertion of bitmap_set or bitmap_clear aborts the run.
SetClUsed ==
    /\ pc = "dir"
    /\ \E cl \in ValidClusters(boot) :
          IF ~bitmap_set_asserts(fat.usedbitmap, cl)
          THEN /\ pc' = "abort"
               /\ last' = [NoLast EXCEPT !.op = "assert", !.head = cl]
               /\ UNCHANGED fat
          ELSE /\ fat' = fat_set_cl_used(fat, cl)
               /\ pc' = "dir"
               /\ last' = [NoLast EXCEPT
                             !.op = "fat_set_cl_used", !.head = cl,
                             !.pre = Snap(fat),
                             !.post = Snap(fat_set_cl_used(fat, cl))]
    /\ UNCHANGED <<rdonly, boot, disk, env, heap, sweep, dev, tally>>

ClearClUsed ==
    /\ pc = "dir"
    /\ \E cl \in ValidClusters(boot) :
          IF ~bitmap_clear_asserts(fat.usedbitmap, cl)
          THEN /\ pc' = "abort"
               /\ last' = [NoLast EXCEPT !.op = "assert", !.head = cl]
               /\ UNCHANGED fat
          ELSE /\ fat' = fat_clear_cl_used(fat, cl)
               /\ pc' = "dir"
               /\ last' = [NoLast EXCEPT
                             !.op = "fat_clear_cl_used", !.head = cl,
                             !.pre = Snap(fat),
                             !.post = Snap(fat_clear_cl_used(fat, cl))]
    /\ UNCHANGED <<rdonly, boot, disk, env, heap, sweep, dev, tally>>

ClearClHead ==
    /\ pc = "dir"
    /\ \E cl \in ValidClusters(boot) :
          IF ~bitmap_clear_asserts(fat.headbitmap, cl)
          THEN /\ pc' = "abort"
               /\ last' = [NoLast EXCEPT !.op = "assert", !.head = cl]
               /\ UNCHANGED fat
          ELSE /\ fat' = fat_clear_cl_head(fat, cl)
               /\ pc' = "dir"
               /\ last' = [NoLast EXCEPT
                             !.op = "fat_clear_cl_head", !.head = cl,
                             !.pre = Snap(fat),
                             !.post = Snap(fat_clear_cl_head(fat, cl))]
    /\ UNCHANGED <<rdonly, boot, disk, env, heap, sweep, dev, tally>>

\* The directory traversal clearing the chain it has just checked.
ClearChain ==
    /\ pc = "dir"
    /\ last.op = "checkchain"
    /\ \E u \in env.uninit :
          LET r == clearchain(fat, boot, rdonly, last.head, u)
          IN  /\ fat' = r.fat
              /\ boot' = r.boot
              /\ pc' = IF r.hang THEN "hang" ELSE "dir"
              /\ last' = [NoLast EXCEPT
                            !.op = "clearchain", !.head = last.head,
                            !.pre = Snap(fat), !.post = Snap(r.fat),
                            !.prefree = boot.NumFree,
                            !.prebad = boot.NumBad]
    /\ dev' = mmap_shared(dev, boot, fat')
    /\ disk' = PrimaryFat(dev', boot)
    /\ UNCHANGED <<rdonly, env, heap, sweep, tally>>

\* checklost up to the first test of its loop.
LostBegin ==
    /\ pc = "dir"
    /\ pc' = "lost"
    /\ sweep' = [NoSweep EXCEPT
                   !.head = CLUST_FIRST,
                   !.chains = fat_get_head_count(fat),
                   !.mod = FSOK,
                   !.heads0 = {c \in ValidClusters(boot) : fat_is_cl_head(fat, c)},
                   !.fatbuf0 = fat.fatbuf]
    /\ UNCHANGED <<rdonly, boot, disk, env, fat, heap, last, dev, tally>>

\* checklost reconnecting only the chains checkchain found sound.
checklost_reconnects_okonly(ccret) == ccret = FSOK

\* if (ret != FSERROR): the chain is reported lost and reconnect is called.
checklost_reconnects(ccret) == ccret # FSERROR

\* if (mod & FSFATAL) break;
checklost_breaks(mod) == HasFlag(mod, FSFATAL)

\* if (ret == FSERROR && ask(0, "Clear")): whether the oracle is asked.
checklost_asks_clear(mod, ret) == ~checklost_breaks(mod) /\ ret = FSERROR

\* One iteration of the loop of checklost.
LostStep ==
    /\ pc = "lost"
    /\ ~sweep.broke
    /\ sweep.chains > 0
    /\ sweep.head < boot.NumClusters
    /\ LET head == sweep.head
       IN  IF head % LONG_BIT = 0 /\ ~fat_is_cl_head_in_range(fat, head)
           THEN /\ sweep' = [sweep EXCEPT !.head = head + LONG_BIT,
                                          !.skips = @ + 1]
                /\ UNCHANGED <<boot, fat, pc, last, tally>>
           ELSE IF ~fat_is_cl_head(fat, head)
           THEN /\ sweep' = [sweep EXCEPT !.head = head + 1]
                /\ UNCHANGED <<boot, fat, pc, last, tally>>
           ELSE IF ~checkchain_asserts(fat, boot, head)
           THEN /\ pc' = "abort"
                /\ last' = [NoLast EXCEPT !.op = "assert", !.head = head]
                /\ UNCHANGED <<boot, fat, sweep, tally>>
           ELSE
           \E ans \in env.answers :
           LET cc == checkchain(fat, boot, rdonly, head, ans)
               reconnected == checklost_reconnects(cc.ret)
           IN
           /\ Asked(cc.asks, "Truncate") \/ ans = NoAnswer
           /\ \E rc \in env.reconnect :
              LET ret == IF reconnected THEN rc ELSE cc.ret
                  mod == IF reconnected THEN BitOr(sweep.mod, rc)
                                        ELSE sweep.mod
                  broke == checklost_breaks(mod)
                  askclear == checklost_asks_clear(mod, ret)
              IN
              /\ reconnected \/ rc = NoStatus
              /\ \E clr \in env.clear :
                 LET clear == askclear /\ clr
                 IN
                 /\ askclear \/ clr = NoClear
                 /\ \E u \in env.uninit :
                    LET cl == IF clear
                              THEN clearchain(cc.fat, boot, rdonly, head, u)
                              ELSE [fat |-> cc.fat, boot |-> boot,
                                    hang |-> FALSE]
                    IN
                    /\ clear \/ u = NoUninit
                    /\ fat' = cl.fat
                    /\ boot' = cl.boot
                    /\ pc' = IF cl.hang THEN "hang" ELSE "lost"
                    /\ last' = [NoLast EXCEPT
                                  !.op = "checkchain", !.head = head,
                                  !.ret = cc.ret, !.chainsize = cc.chainsize,
                                  !.asks = cc.asks, !.cur = cc.cur,
                                  !.next = cc.next, !.iters = cc.iters,
                                  !.pre = Snap(fat), !.post = Snap(cc.fat),
                                  !.prefree = boot.NumFree,
                                  !.prebad = boot.NumBad]
                    /\ tally' = Tallied(tally, fat, head, cc)
                    /\ sweep' = [sweep EXCEPT
                          !.head = IF broke THEN head ELSE head + 1,
                          !.chains = IF broke THEN @ ELSE @ - 1,
                          !.mod = IF clear THEN BitOr(mod, FSFATMOD) ELSE mod,
                          !.ret = ret,
                          !.broke = broke,
                          !.calls = Append(@, head),
                          !.ev = [head |-> head, ccret |-> cc.ret,
                                  chainlength |-> cc.chainsize,
                                  reconnected |-> reconnected,
                                  rcret |-> IF reconnected THEN rc ELSE 0,
                                  askedclear |-> askclear,
                                  clearans |-> clr,
                                  cleared |-> clear]]
    /\ dev' = mmap_shared(dev, boot, fat')
    /\ disk' = PrimaryFat(dev', boot)
    /\ UNCHANGED <<rdonly, env, heap>>

\* The first FREE cluster at or after head, or -1 (no such cluster).
RECURSIVE FirstFree(_, _, _)
FirstFree(fatd, b, head) ==
    IF head >= b.NumClusters THEN -1
    ELSE IF fat_get_cl_next(fatd, b, head) = CLUST_FREE THEN head
    ELSE FirstFree(fatd, b, head + 1)

\* The search of the free cluster starting one cluster late.
checklost_first_free_late(fatd, b) == FirstFree(fatd, b, CLUST_FIRST + 1)

\* for (head = CLUST_FIRST; head < boot->NumClusters; head++)
checklost_first_free(fatd, b) == FirstFree(fatd, b, CLUST_FIRST)

\* The test of FSFree taking the "unknown" value for a count.
checklost_asks_fix_always(b) == b.FSFree # b.NumFree

\* Whether "Fix" is offered for the free count of the FSInfo block.
checklost_asks_fix(b) ==
    b.FSFree # FSINFO_UNKNOWN /\ b.FSFree # b.NumFree

\* Whether "fix" is offered for the next free cluster of the FSInfo block.
checklost_asks_next(fatd, b) ==
    /\ b.FSNext # FSINFO_UNKNOWN
    /\ \/ U32Ge(b.FSNext, b.NumClusters)
       \/ (b.NumFree # 0
           /\ fat_get_cl_next(fatd, b, b.FSNext) # CLUST_FREE)

\* checklost after its loop: the FSInfo block, the used bitmap, the return.
LostEnd ==
    /\ pc = "lost"
    /\ sweep.broke \/ sweep.chains = 0 \/ sweep.head >= boot.NumClusters
    /\ \E fix1 \in env.answers, fix2 \in env.answers, w \in env.writefsinfo :
          LET askfree == boot.bpbFSInfo # 0 /\ checklost_asks_fix(boot)
              b1 == IF askfree /\ fix1
                    THEN [boot EXCEPT !.FSFree = boot.NumFree] ELSE boot
              asknext == boot.bpbFSInfo # 0 /\ checklost_asks_next(fat, b1)
              ff == checklost_first_free(fat, b1)
              found == asknext /\ fix2 /\ ff # -1
              b2 == IF found THEN [b1 EXCEPT !.FSNext = ff] ELSE b1
              ret == (askfree /\ fix1) \/ found
              mod == IF ret THEN BitOr(sweep.mod, w) ELSE sweep.mod
          IN  /\ askfree \/ fix1 = NoAnswer
              /\ asknext \/ fix2 = NoAnswer
              /\ ret \/ w = CHOOSE x \in env.writefsinfo : TRUE
              /\ boot' = b2
              /\ sweep' = [sweep EXCEPT !.mod = mod, !.wrote = ret]
              /\ last' = [NoLast EXCEPT
                            !.op = "checklost", !.ret = mod,
                            !.asks =
                               (IF askfree
                                THEN <<[prompt |-> "Fix", cl |-> 0, ans |-> fix1]>>
                                ELSE <<>>)
                               \o (IF asknext
                                   THEN <<[prompt |-> "fix", cl |-> 0, ans |-> fix2]>>
                                   ELSE <<>>),
                            !.pre = Snap(fat), !.post = Snap(fat),
                            !.prefree = boot.NumFree,
                            !.prebad = boot.NumBad,
                            !.prefsfree = boot.FSFree,
                            !.prefsnext = boot.FSNext]
    /\ fat' = [fat EXCEPT !.usedbitmap = bitmap_dtor(@)]
    /\ heap' = heap \ {"usedbitmap"}
    /\ pc' = "done"
    /\ UNCHANGED <<rdonly, disk, env, dev, tally>>

-----------------------------------------------------------------------------
(* The volumes, environments and oracles the runs start from.              *)

Masks == {CLUST12_MASK, CLUST16_MASK, CLUST32_MASK}

MEDIA == 248

\* The bytes the entries 0 .. n-1 take in a FAT of the width.
FatBytes(mask, n) ==
    CASE mask = CLUST12_MASK -> (3 * n + 1) \div 2
      [] mask = CLUST16_MASK -> 2 * n
      [] mask = CLUST32_MASK -> 4 * n

\* Byte i of the FAT whose entry c holds ent[c] (0 outside DOMAIN ent).
ImageByte(mask, ent, i) ==
    LET raw(c) == IF c \in DOMAIN ent THEN ent[c] % (mask + 1) ELSE 0
        e0 == raw(2 * (i \div 3))
        e1 == raw(2 * (i \div 3) + 1)
        e32 == raw(i \div 4)
    IN  IF mask = CLUST12_MASK
        THEN IF i % 3 = 0 THEN e0 % 256
             ELSE IF i % 3 = 1 THEN (e0 \div 256) + (e1 % 16) * 16
             ELSE e1 \div 16
        ELSE IF mask = CLUST16_MASK
        THEN IF i % 2 = 0 THEN raw(i \div 2) % 256 ELSE raw(i \div 2) \div 256
        ELSE IF i % 4 = 0 THEN e32 % 256
             ELSE IF i % 4 = 1 THEN (e32 \div 256) % 256
             ELSE IF i % 4 = 2 THEN (e32 \div 65536) % 256
             ELSE e32 \div 16777216

\* A FAT of size bytes that starts with the bytes sig and holds ent.
Image(mask, size, sig, ent) ==
    [i \in 0 .. (size - 1) |->
        IF i < Len(sig) THEN sig[i + 1] ELSE ImageByte(mask, ent, i)]

CleanSig(mask) ==
    CASE mask = CLUST12_MASK -> <<MEDIA, 255, 255>>
      [] mask = CLUST16_MASK -> <<MEDIA, 255, 255, 255>>
      [] mask = CLUST32_MASK -> <<MEDIA, 255, 255, 15, 255, 255, 255, 15>>

\* Leading bytes of every kind: clean, dirty, and odd in several ways.
Sigs(mask) ==
    CASE mask = CLUST12_MASK ->
           {<<MEDIA, 255, 255>>, <<MEDIA, 255, 0>>, <<240, 255, 255>>}
      [] mask = CLUST16_MASK ->
           {<<MEDIA, 255, 255, 255>>, <<MEDIA, 255, 255, 127>>,
            <<MEDIA, 255, 255, 0>>, <<MEDIA, 255, 255, 63>>,
            <<240, 255, 255, 127>>}
      [] mask = CLUST32_MASK ->
           {<<MEDIA, 255, 255, 15, 255, 255, 255, 15>>,
            <<MEDIA, 255, 255, 255, 255, 255, 255, 255>>,
            <<MEDIA, 255, 255, 15, 255, 255, 255, 7>>,
            <<MEDIA, 255, 255, 255, 255, 255, 255, 7>>,
            <<MEDIA, 255, 255, 15, 255, 255, 0, 15>>,
            <<MEDIA, 255, 255, 15, 255, 255, 255, 23>>}

Boot(mask, n, free, bad) ==
    [ClustMask |-> mask, NumClusters |-> n, bpbMedia |-> MEDIA,
     bpbBytesPerSec |-> 4, FATsecs |-> (FatBytes(mask, n) + 3) \div 4,
     bpbResSectors |-> 1, bpbFATs |-> 2,
     NumFree |-> free, NumBad |-> bad,
     bpbFSInfo |-> 0, FSFree |-> FSINFO_UNKNOWN, FSNext |-> FSINFO_UNKNOWN]

DiskOf(b, sig, ent) ==
    Image(b.ClustMask, b.FATsecs * b.bpbBytesPerSec, sig, ent)

AllOk ==
    [calloc |-> TRUE, mmap |-> TRUE, malloc |-> TRUE, read |-> TRUE,
     usedmap |-> TRUE, headmap |-> TRUE]

\* Every way the allocations and the I/O of readfat can turn out.
Outcomes ==
    {AllOk,
     [AllOk EXCEPT !.mmap = FALSE],
     [AllOk EXCEPT !.calloc = FALSE],
     [AllOk EXCEPT !.mmap = FALSE, !.malloc = FALSE],
     [AllOk EXCEPT !.mmap = FALSE, !.read = FALSE],
     [AllOk EXCEPT !.usedmap = FALSE],
     [AllOk EXCEPT !.mmap = FALSE, !.headmap = FALSE]}

Statuses == {FSOK, FSFATMOD, FSERROR, FSFATAL}

\* The environment: the outcomes of the system calls, the answers the
\* oracle may give, the statuses reconnect and writefsinfo may return, and
\* the values an uninitialised local may hold.
Env(outcome, answers, rec, uninit) ==
    [calloc |-> outcome.calloc, mmap |-> outcome.mmap,
     malloc |-> outcome.malloc, read |-> outcome.read,
     usedmap |-> outcome.usedmap, headmap |-> outcome.headmap,
     answers |-> answers, clear |-> answers, reconnect |-> rec,
     writefsinfo |-> {FSOK, FSFATAL}, uninit |-> uninit]

\* The values an entry of a small volume is drawn from: free, the
\* reserved 1, every valid cluster, the first cluster out of range, bad,
\* end of file.
EntryValues(n) ==
    {CLUST_FREE, 1, n, CLUST_BAD, CLUST_EOF} \cup (CLUST_FIRST .. (n - 1))

\* Volumes of n clusters with every FAT content and a clean signature,
\* the counters holding values left by an earlier use of the boot block.
InitContents(n) ==
    \E mask \in Masks :
    \E ent \in [CLUST_FIRST .. (n - 1) -> EntryValues(n)] :
       LET b == Boot(mask, n, 7, 3)
       IN  /\ rdonly \in BOOLEAN
           /\ boot = b
           /\ disk = DiskOf(b, CleanSig(mask), ent)
           /\ env = Env(AllOk, BOOLEAN, Statuses, UninitValues(b))

\* Two-cluster volumes with every kind of leading bytes and every outcome
\* of the system calls.
InitSignatures ==
    \E mask \in Masks : \E sig \in Sigs(mask) :
    \E ent \in {(2 :> 3) @@ (3 :> CLUST_EOF), (2 :> 4) @@ (3 :> CLUST_FREE)} :
    \E outcome \in Outcomes :
       LET b == Boot(mask, 4, 7, 3)
       IN  /\ rdonly \in BOOLEAN
           /\ boot = b
           /\ disk = DiskOf(b, sig, ent)
           /\ env = Env(outcome, BOOLEAN, Statuses, UninitValues(b))

\* Volumes of more than two bitmap words whose only allocated clusters lie
\* at the borders of the words: the first SparseAllocated of these.  The
\* oracle declines every "Clear".
SparseCandidates ==
    <<2 * LONG_BIT, LONG_BIT, 2 * LONG_BIT - 1, LONG_BIT - 1,
      2 * LONG_BIT + 1, CLUST_FIRST>>

InitSparse ==
    \E ent \in [{SparseCandidates[i] : i \in 1 .. SparseAllocated}
                   -> {CLUST_FREE, CLUST_EOF}] :
       LET b == Boot(CLUST12_MASK, 2 * LONG_BIT + 2, 0, 0)
       IN  /\ rdonly = FALSE
           /\ boot = b
           /\ disk = DiskOf(b, CleanSig(CLUST12_MASK), ent)
           /\ env = [Env(AllOk, BOOLEAN, {FSOK, FSERROR}, UninitValues(b))
                       EXCEPT !.clear = {FALSE}]

\* The device holding the given FAT copies after its reserved sectors.
Device(b, copies) ==
    LET res == b.bpbResSectors * b.bpbBytesPerSec
        len == b.FATsecs * b.bpbBytesPerSec
    IN  [off \in 0 .. (res + b.bpbFATs * len - 1) |->
            IF off < res THEN 0
            ELSE copies[(off - res) \div len][(off - res) % len]]

Start ==
    /\ dev = Device(boot, [i \in 0 .. (boot.bpbFATs - 1) |-> disk])
    /\ tally = NoTally
    /\ fat = NoFat
    /\ heap = {}
    /\ pc = "start"
    /\ last = NoLast
    /\ sweep = NoSweep

(* The whole run, on the smallest volumes and on every kind of leading     *)
(* bytes.                                                                  *)
Init ==
    /\ InitContents(CLUST_FIRST + 2) \/ InitSignatures
    /\ Start

\* The calls of the engine: readfat, checkchain, clearchain, checklost.
NextRun ==
    \/ ReadFat
    \/ CheckChain
    \/ ClearChain
    \/ LostBegin
    \/ LostStep
    \/ LostEnd

SpecRun == Init /\ [][NextRun]_vars

\* Every call a caller can make, the bitmap calls included.
Next ==
    \/ NextRun
    \/ SetClUsed
    \/ ClearClUsed
    \/ ClearClHead

Spec == Init /\ [][Next]_vars

(* readfat and the checkchain calls of the directory traversal, on every   *)
(* FAT content of a volume of MaxClusters clusters.                        *)
InitChain ==
    /\ InitContents(MaxClusters)
    /\ Start

NextChain ==
    \/ ReadFat
    \/ CheckChain

SpecChain == InitChain /\ [][NextChain]_vars

(* The run without a clearchain of the directory traversal, rdonly off,    *)
(* every offer of a truncation accepted, reconnect not failing fatally,    *)
(* and "Clear" answered either way.                                        *)
InitSweep ==
    /\ \E mask \in Masks :
       \E ent \in [CLUST_FIRST .. (MaxClusters - 2) -> EntryValues(MaxClusters - 1)] :
          LET b == Boot(mask, MaxClusters - 1, 7, 3)
          IN  /\ rdonly = FALSE
              /\ boot = b
              /\ disk = DiskOf(b, CleanSig(mask), ent)
              /\ env = [Env(AllOk, {TRUE}, {FSOK, FSERROR},
                            UninitValues(b))
                          EXCEPT !.clear = BOOLEAN]
    /\ Start

NextSweep ==
    \/ ReadFat
    \/ CheckChain
    \/ LostBegin
    \/ LostStep
    \/ LostEnd

SpecSweep == InitSweep /\ [][NextSweep]_vars

(* readfat, the checkchain calls of the directory traversal and checklost  *)
(* on the volumes of several bitmap words.                                 *)
InitSparseRun ==
    /\ InitSparse
    /\ Start

SpecSparse == InitSparseRun /\ [][NextSweep]_vars

(* The whole run on FAT32 volumes with an FSInfo block, whose hints are    *)
(* unknown, right, stale, reserved or out of range.                        *)
InitFSInfo ==
    /\ \E ent \in [CLUST_FIRST .. (CLUST_FIRST + 1)
                      -> {CLUST_FREE, 1, CLUST_BAD, CLUST_EOF}] :
       \E free \in {FSINFO_UNKNOWN, 0, 1, 5} :
       \E next \in {FSINFO_UNKNOWN, 1} \cup (CLUST_FIRST .. (CLUST_FIRST + 2)) :
          LET b == [Boot(CLUST32_MASK, CLUST_FIRST + 2, 7, 3) EXCEPT
                      !.bpbFSInfo = 1, !.FSFree = free, !.FSNext = next]
          IN  /\ rdonly \in BOOLEAN
              /\ boot = b
              /\ disk = DiskOf(b, CleanSig(CLUST32_MASK), ent)
              /\ env = Env(AllOk, BOOLEAN, {FSOK, FSERROR}, UninitValues(b))
    /\ Start

SpecFSInfo == InitFSInfo /\ [][NextRun]_vars

(* readfat alone, on two-cluster volumes whose entries also take a value   *)
(* of the reserved band, an end of file mark other than the one stored by  *)
(* a truncation, and a far out of range value, with every kind of leading  *)
(* bytes.                                                                  *)
ScanValues(n) ==
    EntryValues(n) \cup {n + 1, CLUST_BAD - 1, CLUST_BAD - 7, CLUST_EOFS}

InitScan ==
    /\ \E mask \in Masks : \E sig \in Sigs(mask) :
       \E ent \in [CLUST_FIRST .. (CLUST_FIRST + 1) -> ScanValues(CLUST_FIRST + 2)] :
          LET b == Boot(mask, CLUST_FIRST + 2, 7, 3)
          IN  /\ rdonly \in BOOLEAN
              /\ boot = b
              /\ disk = DiskOf(b, sig, ent)
              /\ env = Env(AllOk, BOOLEAN, {FSOK}, UninitValues(b))
    /\ Start

NextScan == ReadFat

SpecScan == InitScan /\ [][NextScan]_vars

(* writefat on a loaded FAT whose buffer differs from what the device      *)
(* holds.  A mapped buffer is the first copy on the device itself.         *)
MaxFATs == 3

WriteOutcomes(b, fatd) ==
    [writefat_start(fatd) .. (b.bpbFATs - 1) ->
        [seek : {TRUE}, written : {0, fatd.fatsize - 1, fatd.fatsize}]
        \cup [seek : {FALSE}, written : {0}]]

InitWrite ==
    /\ \E mask \in Masks : \E nfats \in 1 .. MaxFATs : \E mapped \in BOOLEAN :
       \E k \in 1 .. 2 :
          LET b == [Boot(mask, CLUST_FIRST + 2, 0, 0) EXCEPT !.bpbFATs = nfats]
              len == b.FATsecs * b.bpbBytesPerSec
              buf == DiskOf(b, CleanSig(mask),
                            [c \in CLUST_FIRST .. (CLUST_FIRST + 1) |->
                               IF k = 1 \/ c = CLUST_FIRST + 1
                               THEN CLUST_EOF ELSE CLUST_FIRST + 1])
              old == DiskOf(b, CleanSig(mask),
                            [c \in CLUST_FIRST .. (CLUST_FIRST + 1) |->
                               CLUST_FREE])
          IN  /\ rdonly = FALSE
              /\ boot = b
              /\ disk = IF mapped THEN buf ELSE old
              /\ env = Env(AllOk, {FALSE}, {FSOK}, UninitValues(b))
              /\ fat = [NoFat EXCEPT
                          !.fatbuf = buf,
                          !.fatsize = len,
                          !.is_mmapped = mapped,
                          !.usedbitmap = bitmap_ctor(b.NumClusters, FALSE),
                          !.headbitmap = bitmap_ctor(b.NumClusters, TRUE)]
              /\ dev = Device(b, [i \in 0 .. (nfats - 1) |->
                                    IF i = 0 THEN disk ELSE old])
    /\ heap = {"fat", "fatbuf", "usedbitmap", "headbitmap"}
    /\ pc = "write"
    /\ last = NoLast
    /\ sweep = NoSweep
    /\ tally = NoTally

WriteFat ==
    /\ pc = "write"
    /\ \E outs \in WriteOutcomes(boot, fat) :
          LET r == writefat(fat, boot, dev, outs)
          IN  /\ dev' = r.dev
              /\ last' = [NoLast EXCEPT !.op = "writefat", !.ret = r.ret,
                                        !.io = r.io, !.pre = Snap(fat),
                                        !.post = Snap(fat)]
    /\ disk' = PrimaryFat(dev', boot)
    /\ pc' = "written"
    /\ UNCHANGED <<rdonly, boot, env, fat, heap, sweep, tally>>

NextWrite == WriteFat

SpecWrite == InitWrite /\ [][NextWrite]_vars

(* checkdirty on a device whose first FAT sector starts with bytes of      *)
(* every kind, with every outcome of malloc, lseek and read.  A call that  *)
(* is not made after a failure is listed as succeeding.                    *)
DirtySigs(mask) ==
    IF mask = CLUST32_MASK
    THEN {<<b0, 255, b2, b3, b4, b5, 255, b7>> :
             b0 \in {MEDIA, 240}, b2 \in {255, 248}, b3 \in {15, 255, 14},
             b4 \in {255, 248, 247}, b5 \in {255, 0},
             b7 \in {15, 255, 7, 11, 3, 12, 14}}
         \cup {<<MEDIA, 254, 255, 15, 255, 255, 255, 15>>,
               <<MEDIA, 255, 255, 15, 255, 255, 254, 15>>}
    ELSE {<<b0, b1, b2, b3>> :
             b0 \in {MEDIA, 240}, b1 \in {255, 254}, b2 \in {255, 248, 247},
             b3 \in {255, 127, 191, 63, 207, 62, 0}}

DirtyOutcomes ==
    {[malloc |-> TRUE, lseek |-> TRUE, read |-> TRUE],
     [malloc |-> FALSE, lseek |-> TRUE, read |-> TRUE],
     [malloc |-> TRUE, lseek |-> FALSE, read |-> TRUE],
     [malloc |-> TRUE, lseek |-> TRUE, read |-> FALSE]}

InitDirty ==
    /\ \E mask \in Masks : \E sig \in DirtySigs(mask) :
          LET b0 == Boot(mask, CLUST_FIRST + 2, 0, 0)
              b == [b0 EXCEPT !.bpbBytesPerSec = 8,
                              !.FATsecs = (FatBytes(mask, CLUST_FIRST + 2) + 7) \div 8]
          IN  /\ boot = b
              /\ disk = DiskOf(b, sig, [c \in CLUST_FIRST .. (CLUST_FIRST + 1) |-> CLUST_EOF])
              /\ dev = Device(b, [i \in 0 .. (b.bpbFATs - 1) |-> disk])
    /\ rdonly \in BOOLEAN
    /\ env = Env(AllOk, {FALSE}, {FSOK}, UninitValues(boot))
    /\ fat = NoFat
    /\ heap = {}
    /\ pc = "dirty"
    /\ last = NoLast
    /\ sweep = NoSweep
    /\ tally = NoTally

CheckDirty ==
    /\ pc = "dirty"
    /\ \E o \in DirtyOutcomes :
          last' = [NoLast EXCEPT !.op = "checkdirty",
                                 !.ret = checkdirty(boot, dev, o),
                                 !.io = <<o>>]
    /\ pc' = "dirty_done"
    /\ UNCHANGED <<rdonly, boot, disk, env, fat, heap, sweep, dev, tally>>

NextDirty == CheckDirty

SpecDirty == InitDirty /\ [][NextDirty]_vars

(* The write accessor applied once to a loaded FAT, for every width,       *)
(* cluster and value.                                                      *)

\* Byte i of the k-th background the accessor writes into.
Background(k, i) ==
    CASE k = 1 -> 0
      [] k = 2 -> 255
      [] k = 3 -> 90
      [] k = 4 -> (i * 37 + 11) % 256

\* Values of every kind for a width: small, the reserved band, bad, end of
\* file, a mixed bit pattern, and the 32-bit constants callers pass.
CodecValues(mask) ==
    {0, 1, CLUST_FIRST + 1, (mask + 1) \div 3, mask - 9, mask - 8, mask - 7,
     mask, CLUST_EOF, CLUST_BAD}

InitCodec ==
    /\ \E mask \in Masks : \E k \in 1 .. 4 :
          LET b == Boot(mask, MaxClusters + 1, 0, 0)
          IN  /\ rdonly \in BOOLEAN
              /\ boot = b
              /\ disk = [i \in 0 .. (b.FATsecs * b.bpbBytesPerSec - 1)
                            |-> Background(k, i)]
              /\ env = Env(AllOk, BOOLEAN, Statuses, UninitValues(b))
              /\ fat = [NoFat EXCEPT
                          !.fatbuf = disk,
                          !.fatsize = b.FATsecs * b.bpbBytesPerSec,
                          !.is_mmapped = TRUE,
                          !.usedbitmap = bitmap_ctor(b.NumClusters, FALSE),
                          !.headbitmap = bitmap_ctor(b.NumClusters, TRUE)]
    /\ heap = {"fat", "fatbuf", "usedbitmap", "headbitmap"}
    /\ pc = "codec"
    /\ last = NoLast
    /\ sweep = NoSweep
    /\ dev = Device(boot, [i \in 0 .. (boot.bpbFATs - 1) |-> disk])
    /\ tally = NoTally

\* fat_set_cl_next(fat, cl, nextcl), for valid and invalid cl.
FatSetClNext ==
    /\ pc = "codec"
    /\ \E cl \in 0 .. boot.NumClusters : \E nextcl \in CodecValues(boot.ClustMask) :
          LET r == fat_set_cl_next(fat, boot, rdonly, cl, nextcl)
          IN  /\ fat' = [fat EXCEPT !.fatbuf = r.fatbuf]
              /\ last' = [NoLast EXCEPT
                            !.op = "fat_set_cl_next", !.head = cl,
                            !.next = nextcl, !.ret = r.ret,
                            !.pre = Snap(fat),
                            !.post = [Snap(fat) EXCEPT !.fatbuf = r.fatbuf]]
    /\ dev' = mmap_shared(dev, boot, fat')
    /\ disk' = PrimaryFat(dev', boot)
    /\ pc' = "codec_done"
    /\ UNCHANGED <<rdonly, boot, env, heap, sweep, tally>>

NextCodec == FatSetClNext

SpecCodec == InitCodec /\ [][NextCodec]_vars

-----------------------------------------------------------------------------
(* Properties of the chain checker and of the scanner.                     *)

\* The entry of cluster cl decoded from the FAT bytes buf.
EntryIn(buf, cl) == fat_get_cl_next([NoFat EXCEPT !.fatbuf = buf], boot, cl)

Range(seq) == {seq[i] : i \in 1 .. Len(seq)}

RECURSIVE WalkPath(_, _, _)
\* The clusters a walk over the entries of buf passes, in order, extending
\* path while the successor is a valid cluster neither in seen nor on path.
WalkPath(buf, seen, path) ==
    LET n == EntryIn(buf, path[Len(path)])
    IN  IF fat_is_cl_valid(boot, n) /\ n \notin seen /\ n \notin Range(path)
        THEN WalkPath(buf, seen, Append(path, n))
        ELSE path

\* The walk of the checkchain call recorded in last.
LastPath == WalkPath(last.pre.fatbuf, last.pre.used, <<last.head>>)
LastEnd == LastPath[Len(LastPath)]
LastOffender == EntryIn(last.pre.fatbuf, LastEnd)
LastNatural ==
    ~fat_is_cl_valid(boot, LastOffender) /\ U32Ge(LastOffender, CLUST_EOFS)

\* What holds of every checkchain call, whatever rdonly is: OK exactly at
\* a natural end and then nothing changed nor asked; otherwise one
\* Truncate offer at the last cluster visited, FATMOD on yes, ERROR and no
\* change on no.
C1_Common ==
    /\ (last.ret = FSOK) <=> LastNatural
    /\ LastNatural => (last.post.fatbuf = last.pre.fatbuf /\ last.asks = <<>>)
    /\ ~LastNatural =>
          /\ Len(last.asks) = 1
          /\ last.asks[1].prompt = "Truncate"
          /\ last.asks[1].cl = LastEnd
          /\ last.asks[1].ans => last.ret = FSFATMOD
          /\ ~last.asks[1].ans =>
                (last.ret = FSERROR /\ last.post.fatbuf = last.pre.fatbuf)

\* C1 as stated: checkchain returns OK exactly when the walk reaches an
\* entry >= EOFS through valid unused clusters, changing nothing; otherwise
\* it makes one Truncate offer at the last cluster visited, on yes that
\* entry becomes EOF with result FATMOD, on no the result is ERROR with no
\* change; and the offending successor is never marked used by the call.
C1_AsStated ==
    last.op = "checkchain" =>
       /\ C1_Common
       /\ (~LastNatural /\ last.asks[1].ans) =>
             EntryIn(last.post.fatbuf, LastEnd) = CLUST_EOF
       /\ fat_is_cl_valid(boot, LastOffender) =>
             LastOffender \notin (last.post.used \ last.pre.used)

\* C1 amended: as stated, except that on yes the entry becomes EOF (and no
\* other entry changes) only when rdonly is off, with rdonly on the result
\* is still FATMOD but no byte changes; and the used bits the call sets are
\* exactly those of the clusters it walked, so the offending successor is
\* marked by the call only when the chain loops back onto itself.
C1_CheckChain ==
    last.op = "checkchain" =>
       /\ C1_Common
       /\ (~LastNatural /\ last.asks[1].ans) =>
             IF rdonly
             THEN last.post.fatbuf = last.pre.fatbuf
             ELSE /\ EntryIn(last.post.fatbuf, LastEnd) = CLUST_EOF
                  /\ \A c \in ValidClusters(boot) \ {LastEnd} :
                        EntryIn(last.post.fatbuf, c) =
                           EntryIn(last.pre.fatbuf, c)
       /\ last.post.used = last.pre.used \cup Range(LastPath)
       /\ last.post.used \cap last.pre.used \cap Range(LastPath) = {}

\* A chain that loops back onto itself was truncated with rdonly off.
C1_Witness ==
    /\ last.op = "checkchain"
    /\ ~rdonly
    /\ last.ret = FSFATMOD
    /\ LastOffender \in Range(LastPath)
    /\ Len(LastPath) >= 2
    /\ EntryIn(last.post.fatbuf, LastEnd) = CLUST_EOF

\* C2 as stated: on OK for a chain of k clusters the reported chainsize is
\* k + 1 (3 for 2 -> 3 -> EOF).
C2_AsStated ==
    (last.op = "checkchain" /\ last.ret = FSOK) =>
       last.chainsize = Len(LastPath) + 1

\* C2 amended: on OK for a chain of k clusters c1 -> ... -> ck -> EOF the
\* reported chainsize is k, the number of clusters of the chain (2 for
\* 2 -> 3 -> EOF, 3 for 7 -> 8 -> 9 -> EOF).
C2_ChainSize ==
    (last.op = "checkchain" /\ last.ret = FSOK) =>
       /\ last.chainsize = Len(LastPath)
       /\ last.chainsize = Cardinality(last.post.used \ last.pre.used)

\* A chain of three clusters was checked and found sound.
C2_Witness ==
    /\ last.op = "checkchain"
    /\ last.ret = FSOK
    /\ Len(LastPath) = 3
    /\ last.chainsize = 3

\* The state readfat returned without FATAL, before any other operation.
Scanned == last.op = "readfat" /\ pc = "dir"

\* C3: when the scan of readfat has completed, the head bit of a valid
\* cluster is set iff its entry decodes to neither FREE nor BAD and no
\* valid cluster's entry decodes to it, whatever the FAT held and whatever
\* was answered to the Truncate offers.
C3_HeadBits ==
    Scanned =>
       \A cl \in ValidClusters(boot) :
          fat_is_cl_head(fat, cl) <=>
             /\ fat_get_cl_next(fat, boot, cl) \notin {CLUST_FREE, CLUST_BAD}
             /\ \A c2 \in ValidClusters(boot) :
                   fat_get_cl_next(fat, boot, c2) # cl

\* A scan that truncated an entry left one head and pruned a successor.
C3_Witness ==
    /\ Scanned
    /\ \E i \in 1 .. Len(last.asks) :
          last.asks[i].prompt = "Truncate" /\ last.asks[i].ans
    /\ \E cl \in ValidClusters(boot) : fat_is_cl_head(fat, cl)
    /\ \E cl \in ValidClusters(boot) :
          /\ ~fat_is_cl_head(fat, cl)
          /\ fat_get_cl_next(fat, boot, cl) \notin {CLUST_FREE, CLUST_BAD}

\* C4: when readfat returns without FATAL, NumFree is the number of valid
\* clusters whose entry decodes to FREE and NumBad the number whose entry
\* decodes to BAD, whatever the counters held before and whatever the
\* oracle answered.
C4_Counters ==
    Scanned =>
       /\ boot.NumFree = Cardinality({cl \in ValidClusters(boot) :
                            fat_get_cl_next(fat, boot, cl) = CLUST_FREE})
       /\ boot.NumBad = Cardinality({cl \in ValidClusters(boot) :
                            fat_get_cl_next(fat, boot, cl) = CLUST_BAD})

\* Counters that were not zero before the call count a FAT with free and
\* bad clusters.
C4_Witness ==
    /\ Scanned
    /\ last.prefree > 0
    /\ last.prebad > 0
    /\ boot.NumFree = 1
    /\ boot.NumBad = 1
    /\ last.prefree # boot.NumFree

-----------------------------------------------------------------------------
(* Properties of the width codec.                                          *)

\* A fat_set_cl_next(cl, v) has been applied to a valid cluster with a
\* value that fits the width.
CodecWrote ==
    /\ pc = "codec_done"
    /\ fat_is_cl_valid(boot, last.head)
    /\ last.next \in 0 .. boot.ClustMask

\* v with the bits above the width set when v >= BAD & mask.
Extended(v) ==
    IF v >= boot.ClustMask - 8 THEN v - (boot.ClustMask + 1) ELSE v

\* The bytes of the FAT that hold no bit of cluster cl; for FAT12 the
\* nibble of the shared byte that belongs to the neighbour is compared
\* apart.
OthersKept(cl) ==
    /\ \A c \in ValidClusters(boot) \ {cl} :
          EntryIn(last.post.fatbuf, c) = EntryIn(last.pre.fatbuf, c)
    /\ boot.ClustMask = CLUST12_MASK =>
          LET p == cl + (cl \div 2)
          IN  IF cl % 2 = 0
              THEN last.post.fatbuf[p + 1] \div 16 = last.pre.fatbuf[p + 1] \div 16
              ELSE last.post.fatbuf[p] % 16 = last.pre.fatbuf[p] % 16
    /\ DOMAIN last.post.fatbuf = DOMAIN last.pre.fatbuf

\* C5 as stated: for each width, valid cluster cl and value v that fits the
\* width, fat_get_cl_next after fat_set_cl_next(cl, v) returns v
\* sign-extended and every other cluster decodes as before, the FAT12
\* neighbour nibble included.
C5_AsStated ==
    CodecWrote =>
       /\ fat_get_cl_next(fat, boot, last.head) = Extended(last.next)
       /\ OthersKept(last.head)

\* C5 amended: with rdonly off, for each width, valid cluster cl and value
\* v that fits the width, fat_set_cl_next(cl, v) returns 0 and
\* fat_get_cl_next then returns v sign-extended, every other cluster
\* decoding as before, the FAT12 neighbour nibble included; with rdonly on
\* the entry of cl decodes as it did before the call.
C5_RoundTrip ==
    CodecWrote =>
       /\ ~rdonly =>
             /\ last.ret = 0
             /\ fat_get_cl_next(fat, boot, last.head) = Extended(last.next)
       /\ rdonly =>
             fat_get_cl_next(fat, boot, last.head) =
                EntryIn(last.pre.fatbuf, last.head)
       /\ OthersKept(last.head)

\* An odd FAT12 cluster was given a value of the end-of-file band while
\* its neighbours held mixed bits.
C5_Witness ==
    /\ CodecWrote
    /\ ~rdonly
    /\ boot.ClustMask = CLUST12_MASK
    /\ last.head % 2 = 1
    /\ last.next = CLUST12_MASK - 7
    /\ fat_get_cl_next(fat, boot, last.head) = CLUST_EOFS
    /\ last.pre.fatbuf[0] = 11
    /\ last.post.fatbuf # last.pre.fatbuf

\* C6: while rdonly is set every fat_set_cl_next returns FATAL and leaves
\* every byte of the FAT buffer unchanged, for any cluster and any value.
C6_ReadOnlyRefusal ==
    (pc = "codec_done" /\ rdonly) =>
       /\ last.ret = FSFATAL
       /\ fat.fatbuf = last.pre.fatbuf
       /\ fat.fatbuf = disk

\* A write that would have changed the entry of a valid cluster was
\* refused.
C6_Witness ==
    /\ pc = "codec_done"
    /\ rdonly
    /\ fat_is_cl_valid(boot, last.head)
    /\ last.next \in 0 .. boot.ClustMask
    /\ fat_get_cl_next(fat, boot, last.head) # Extended(last.next)
    /\ last.ret = FSFATAL

-----------------------------------------------------------------------------
(* Properties of the whole run.                                            *)

\* C7 as stated: while rdonly is set no operation changes a byte of the
\* in-memory FAT: after readfat, any checkchain and clearchain calls and
\* checklost the buffer is the content that was loaded, whatever the
\* oracle answers.
C7_AsStated ==
    (rdonly /\ pc \in {"dir", "lost", "done", "hang", "abort", "fault"}) =>
       fat.fatbuf = tally.loaded

\* The leading bytes buf of the FAT are the OSR2 dirty pattern.
DirtyPattern(buf) ==
    /\ buf[0] = boot.bpbMedia
    /\ buf[1] = 255
    /\ buf[2] = 255
    /\ \/ boot.ClustMask = CLUST16_MASK /\ buf[3] = 127
       \/ /\ boot.ClustMask = CLUST32_MASK
          /\ <<buf[3], buf[4], buf[5], buf[6], buf[7]>> = <<15, 255, 255, 255, 7>>

\* The leading bytes buf of the FAT are the clean signature of the width,
\* the reserved high nibbles of FAT32 apart.
CleanPattern(buf) ==
    /\ buf[0] = boot.bpbMedia
    /\ buf[1] = 255
    /\ buf[2] = 255
    /\ boot.ClustMask = CLUST16_MASK => buf[3] = 255
    /\ boot.ClustMask = CLUST32_MASK =>
          /\ buf[3] % 16 = 15
          /\ <<buf[4], buf[5], buf[6]>> = <<255, 255, 255>>
          /\ buf[7] % 16 = 15

\* The bytes of the signature of the width.
SigBytes == 0 .. (Len(CleanSig(boot.ClustMask)) - 1)

\* C8: the status readfat returns has FSDIRTY set iff a FAT was loaded
\* whose leading bytes are not the clean signature and are the OSR2 dirty
\* pattern; then the oracle is not asked to correct and the signature
\* bytes are left as they were; a FAT12 volume is never flagged dirty.
C8_Dirty ==
    last.op = "readfat" =>
       /\ HasFlag(last.ret, FSDIRTY) <=>
             (pc \notin {"failed", "fault"}
              /\ ~CleanPattern(tally.loaded) /\ DirtyPattern(tally.loaded))
       /\ HasFlag(last.ret, FSDIRTY) =>
             /\ ~Asked(last.asks, "Correct")
             /\ \A i \in SigBytes : last.post.fatbuf[i] = tally.loaded[i]
       /\ boot.ClustMask = CLUST12_MASK => ~HasFlag(last.ret, FSDIRTY)

\* A FAT32 volume was flagged dirty.
C8_Witness ==
    /\ last.op = "readfat"
    /\ boot.ClustMask = CLUST32_MASK
    /\ HasFlag(last.ret, FSDIRTY)
    /\ DirtyPattern(fat.fatbuf)

\* C9 as stated: when the leading bytes are neither the clean signature
\* nor the dirty pattern and the oracle answers yes to "Correct", readfat
\* rewrites them to the canonical clean signature of the width and the
\* status it returns includes FATMOD.
C9_AsStated ==
    (/\ last.op = "readfat"
     /\ pc = "dir"
     /\ ~CleanPattern(tally.loaded)
     /\ ~DirtyPattern(tally.loaded)
     /\ \E i \in 1 .. Len(last.asks) :
           last.asks[i].prompt = "Correct" /\ last.asks[i].ans) =>
       /\ \A i \in SigBytes : fat.fatbuf[i] = CleanSig(boot.ClustMask)[i + 1]
       /\ HasFlag(last.ret, FSFATMOD)

RECURSIVE Ascending(_)
\* The elements of a set of numbers in increasing order.
Ascending(S) ==
    IF S = {} THEN <<>>
    ELSE LET m == CHOOSE x \in S : \A y \in S : x <= y
         IN  <<m>> \o Ascending(S \ {m})

\* C10: if reconnect never returns FATAL, checklost invokes checkchain
\* exactly once, in increasing order, on every valid cluster whose head
\* bit is set when the sweep starts: at every point of the sweep the calls
\* made are those heads below the cursor in increasing order, the skip of
\* empty words and the counter of outstanding heads passing over none; and
\* when checklost returns no valid cluster has its head bit set.
C10_Sweep ==
    /\ (pc \in {"lost", "done"} /\ ~sweep.broke) =>
          sweep.calls = Ascending({h \in sweep.heads0 : h < sweep.head})
    /\ (pc = "done" /\ ~sweep.broke) =>
          /\ sweep.calls = Ascending(sweep.heads0)
          /\ \A c \in ValidClusters(boot) : ~fat_is_cl_head(fat, c)

\* A sweep that skipped an empty word checked the chains before and after
\* it and returned.
C10_Witness ==
    /\ pc = "done"
    /\ ~sweep.broke
    /\ sweep.skips > 0
    /\ sweep.calls = <<LONG_BIT - 1, 2 * LONG_BIT>>

-----------------------------------------------------------------------------
(* Properties of the sweep of lost chains.                                 *)

\* The sweep has just handled the lost head sweep.ev.head: last is the
\* record of the checkchain call made on it.
Handled ==
    /\ pc \in {"lost", "hang"}
    /\ Len(sweep.calls) > 0
    /\ last.op = "checkchain"
    /\ last.head = sweep.ev.head

\* C11: for each lost head the sweep handles, reconnect is called iff
\* checkchain returned OK or FATMOD, with the chainsize checkchain reported
\* as length; "Clear" is asked iff the last status obtained for the head
\* (checkchain's when it is ERROR, reconnect's otherwise) is ERROR; and
\* clearchain runs iff the answer is yes.
C11_LostHead ==
    Handled =>
       LET ev == sweep.ev
           status == IF last.ret = FSERROR THEN last.ret ELSE ev.rcret
       IN  /\ ev.ccret = last.ret
           /\ ev.reconnected <=> last.ret \in {FSOK, FSFATMOD}
           /\ ev.reconnected => ev.chainlength = last.chainsize
           /\ ev.askedclear <=> status = FSERROR
           /\ ev.cleared <=> (ev.askedclear /\ ev.clearans)
           /\ ev.cleared <=> (\/ pc = "hang"
                              \/ boot.NumFree > last.prefree)

\* A chain that checkchain truncated was reconnected, reconnect returned
\* ERROR, and the chain was cleared on yes.
C11_Witness ==
    /\ Handled
    /\ last.ret = FSFATMOD
    /\ sweep.ev.reconnected
    /\ sweep.ev.rcret = FSERROR
    /\ sweep.ev.cleared
    /\ boot.NumFree > last.prefree

\* The chain of the clearchain call recorded in last, as the FAT held it
\* before the call.
ClearPath == WalkPath(last.pre.fatbuf, {}, <<last.head>>)

\* C12 as stated: with rdonly off, clearchain(head) on a chain c1 -> ... ->
\* ck whose last entry has a non-valid successor leaves the entry of every
\* c1..ck FREE and its used bit clear, increases NumFree by exactly k and
\* changes no other FAT entry.
C12_AsStated ==
    (/\ last.op = "clearchain"
     /\ ~rdonly
     /\ ~fat_is_cl_valid(boot, EntryIn(last.pre.fatbuf,
                                       ClearPath[Len(ClearPath)]))) =>
       /\ \A c \in Range(ClearPath) :
             /\ EntryIn(last.post.fatbuf, c) = CLUST_FREE
             /\ c \notin last.post.used
       /\ boot.NumFree = last.prefree + Len(ClearPath)
       /\ \A c \in ValidClusters(boot) \ Range(ClearPath) :
             EntryIn(last.post.fatbuf, c) = EntryIn(last.pre.fatbuf, c)

\* C13 as stated: whenever checklost changes a FAT entry in the buffer (a
\* truncation by checkchain during the sweep, or entries freed by
\* clearchain), the status it returns has FATMOD set, whatever reconnect
\* returned.
C13_AsStated ==
    (/\ pc = "done"
     /\ last.op = "checklost"
     /\ \E c \in ValidClusters(boot) :
           EntryIn(fat.fatbuf, c) # EntryIn(sweep.fatbuf0, c)) =>
       HasFlag(last.ret, FSFATMOD)

-----------------------------------------------------------------------------
(* Properties of the reconciliation of the FSInfo block.                   *)

\* checklost has returned on a volume with an FSInfo block.
Reconciled ==
    pc = "done" /\ last.op = "checklost" /\ boot.bpbFSInfo # 0

\* The answer given to prompt in the call recorded in last.
Answered(prompt) ==
    \E i \in 1 .. Len(last.asks) :
       last.asks[i].prompt = prompt /\ last.asks[i].ans

\* C14: on a volume with an FSInfo block, "Fix" is asked iff FSFree is not
\* 0xFFFFFFFF and differs from NumFree; on yes FSFree becomes NumFree, on
\* no and when it is not asked FSFree is unchanged; writefsinfo is called
\* iff FSFree or FSNext was changed by the reconciliation.
C14_FSFree ==
    Reconciled =>
       LET differs == /\ last.prefsfree # FSINFO_UNKNOWN
                      /\ last.prefsfree # last.prefree
       IN  /\ boot.NumFree = last.prefree
           /\ Asked(last.asks, "Fix") <=> differs
           /\ boot.FSFree = IF differs /\ Answered("Fix")
                            THEN boot.NumFree ELSE last.prefsfree
           /\ sweep.wrote <=> (\/ boot.FSFree # last.prefsfree
                               \/ boot.FSNext # last.prefsnext)

\* A stale free count was fixed and the FSInfo block written.
C14_Witness ==
    /\ Reconciled
    /\ last.prefsfree = 5
    /\ Answered("Fix")
    /\ boot.FSFree = 1
    /\ boot.FSNext = last.prefsnext
    /\ sweep.wrote

\* The valid clusters whose entry decodes to FREE.
FreeClusters ==
    {c \in ValidClusters(boot) : fat_get_cl_next(fat, boot, c) = CLUST_FREE}

\* C15: on a volume with an FSInfo block, when FSNext is not 0xFFFFFFFF and
\* is either >= NumClusters or (NumFree > 0 and the entry of FSNext is not
\* FREE), "fix" is asked, and on yes FSNext becomes the smallest valid
\* cluster whose entry is FREE, or is unchanged when there is none; in
\* every other case FSNext is unchanged.  The entry of FSNext is what
\* fat_get_cl_next returns, for 0 and 1 too.
C15_FSNext ==
    Reconciled =>
       LET stale ==
              /\ last.prefsnext # FSINFO_UNKNOWN
              /\ \/ U32Ge(last.prefsnext, boot.NumClusters)
                 \/ /\ boot.NumFree > 0
                    /\ fat_get_cl_next(fat, boot, last.prefsnext) # CLUST_FREE
       IN  /\ Asked(last.asks, "fix") <=> stale
           /\ boot.FSNext =
                 IF stale /\ Answered("fix") /\ FreeClusters # {}
                 THEN CHOOSE c \in FreeClusters :
                         \A d \in FreeClusters : c <= d
                 ELSE last.prefsnext

\* The reserved cluster 1 as next free cluster was replaced by cluster 3,
\* the first free one.
C15_Witness ==
    /\ Reconciled
    /\ last.prefsnext = 1
    /\ Answered("fix")
    /\ boot.FSNext = CLUST_FIRST + 1
    /\ FreeClusters = {CLUST_FIRST + 1}


-----------------------------------------------------------------------------
\* The bytes of FAT copy i as the device holds them.
CopyOnDevice(i) ==
    [o \in 0 .. (fat.fatsize - 1) |->
        dev[(boot.bpbResSectors + i * boot.FATsecs) * boot.bpbBytesPerSec + o]]

\* C16: writefat seeks to (bpbResSectors + i*FATsecs)*bpbBytesPerSec and
\* requests a write of fatsize bytes for every copy i of [0, bpbFATs) in
\* turn, leaving out only copy 0 of a mapped FAT; a failed seek or a short
\* write does not end the loop; the result is OK exactly when every copy
\* attempted was written in full and FATAL otherwise; after OK every copy
\* on the device equals the buffer.
C16_WriteFat ==
    (pc = "written" /\ last.op = "writefat") =>
        LET first == IF fat.is_mmapped THEN 1 ELSE 0
            full(a) == a.seek /\ a.written = fat.fatsize
        IN  /\ Len(last.io) = boot.bpbFATs - first
            /\ \A j \in 1 .. Len(last.io) :
                  /\ last.io[j].copy = first + j - 1
                  /\ last.io[j].off =
                        (boot.bpbResSectors + last.io[j].copy * boot.FATsecs)
                        * boot.bpbBytesPerSec
                  /\ last.io[j].seek =>
                        last.io[j].wrote /\ last.io[j].size = fat.fatsize
            /\ last.ret = IF \A j \in 1 .. Len(last.io) : full(last.io[j])
                          THEN FSOK ELSE FSFATAL
            /\ last.ret = FSOK =>
                  \A i \in 0 .. (boot.bpbFATs - 1) :
                     CopyOnDevice(i) = fat.fatbuf

\* Three copies of an unmapped FAT: the seek of the first fails, the write
\* of the second is short, and the third is still written in full.
C16_Witness ==
    /\ pc = "written"
    /\ last.op = "writefat"
    /\ ~fat.is_mmapped
    /\ boot.bpbFATs = MaxFATs
    /\ Len(last.io) = MaxFATs
    /\ ~last.io[1].seek
    /\ last.io[2].seek /\ last.io[2].written = fat.fatsize - 1
    /\ last.io[MaxFATs].seek /\ last.io[MaxFATs].written = fat.fatsize
    /\ CopyOnDevice(MaxFATs - 1) = fat.fatbuf
    /\ CopyOnDevice(0) # fat.fatbuf
    /\ last.ret = FSFATAL


-----------------------------------------------------------------------------
\* C17: on every failure return of readfat (the mapping and the read both
\* fail, the buffer cannot be allocated, a bitmap cannot be allocated)
\* nothing the call allocated is still live, and the caller receives no
\* descriptor.  The return after a failed _readfat leaves the descriptor
\* allocated.
C17_AsStated ==
    (pc = "failed" /\ last.op = "readfat") =>
        /\ last.ret = FSFATAL
        /\ heap = {}
        /\ fat = NoFat


-----------------------------------------------------------------------------
\* Bit k of the byte x is set.
BitSet(x, k) == (x \div (2 ^ k)) % 2 = 1

\* Entry c of the first FAT sector on the device, little endian.
SectorEntry(c) ==
    LET off == boot.bpbResSectors * boot.bpbBytesPerSec
        w == IF boot.ClustMask = CLUST16_MASK THEN 2 ELSE 4
        byte(i) == dev[off + c * w + i]
    IN  IF w = 2 THEN <<byte(0), byte(1)>>
        ELSE <<byte(0), byte(1), byte(2), byte(3)>>

\* The first two entries have the layout of the header comment of
\* checkdirty: entry 0 is the media byte under ones (the reserved nibble of
\* FAT32 apart), entry 1 is ones from bit 3 up to the two flag bits.
Understood ==
    LET e0 == SectorEntry(0)
        e1 == SectorEntry(1)
    IN  IF boot.ClustMask = CLUST16_MASK
        THEN /\ e0 = <<boot.bpbMedia, 255>>
             /\ \A k \in 3 .. 7 : BitSet(e1[1], k)
             /\ \A k \in 0 .. 5 : BitSet(e1[2], k)
        ELSE /\ <<e0[1], e0[2], e0[3]>> = <<boot.bpbMedia, 255, 255>>
             /\ \A k \in 0 .. 3 : BitSet(e0[4], k)
             /\ \A k \in 3 .. 7 : BitSet(e1[1], k)
             /\ <<e1[2], e1[3]>> = <<255, 255>>
             /\ \A k \in 0 .. 1 : BitSet(e1[4], k)

\* (byte3 & 0xC0) == 0xC0 for FAT16, (byte7 & 0x0C) == 0x0C for FAT32.
CleanAndNoError ==
    IF boot.ClustMask = CLUST16_MASK
    THEN BitSet(SectorEntry(1)[2], 7) /\ BitSet(SectorEntry(1)[2], 6)
    ELSE BitSet(SectorEntry(1)[4], 3) /\ BitSet(SectorEntry(1)[4], 2)

\* C18: checkdirty returns 1 only for a FAT16 or FAT32 volume whose first
\* FAT sector was read, is understood and has the clean and the no-error
\* bit set; in every other case (FAT12, a failure to allocate, seek or
\* read, bytes not understood) it returns 0.  A failed malloc returns 1.
C18_AsStated ==
    (pc = "dirty_done" /\ last.op = "checkdirty") =>
        last.ret =
            IF /\ boot.ClustMask \in {CLUST16_MASK, CLUST32_MASK}
               /\ last.io[1].malloc /\ last.io[1].lseek /\ last.io[1].read
               /\ Understood
               /\ CleanAndNoError
            THEN 1 ELSE 0


-----------------------------------------------------------------------------
\* C19: after readfat, whatever checkchain calls on heads, clearchain calls
\* and steps of checklost follow, no cluster checkchain visited has its
\* head bit and its used bit both set.  Only checkchain sets used bits, so
\* the clusters with a used bit are clusters it visited: no valid cluster
\* has both bits.
C19_HeadOrUsed ==
    \A c \in ValidClusters(boot) :
       ~(fat_is_cl_head(fat, c) /\ fat_is_cl_used(fat, c))

\* checklost has checked a lost chain of two clusters: the head and the
\* interior cluster have their used bit, and neither has its head bit.
C19_Witness ==
    /\ pc = "lost"
    /\ last.op = "checkchain"
    /\ last.chainsize >= 2
    /\ fat_is_cl_used(fat, last.head)
    /\ \E c \in ValidClusters(boot) : c # last.head /\ fat_is_cl_used(fat, c)


-----------------------------------------------------------------------------
\* The number of set bits of the used bitmap.
UsedBits == Cardinality(fat.usedbitmap.map)

\* C20 as stated: after readfat and any checkchain calls, with any answers,
\* the used bits are as many as the chainsize results add up to.  A call
\* whose truncation was refused has marked one cluster more than it counted.
C20_AsStated ==
    pc = "dir" => UsedBits = tally.chainsize

\* C20: after readfat and any checkchain calls, with any answers, the used
\* bits are as many as the chainsize results add up to, plus one for every
\* call that returned ERROR.
C20_UsedBits ==
    pc = "dir" => UsedBits = tally.chainsize + tally.errors

\* Two chains were checked: one ended naturally or was truncated, the
\* truncation of the other was refused after it had marked two clusters.
C20_Witness ==
    /\ pc = "dir"
    /\ tally.calls = 2
    /\ tally.errors = 1
    /\ last.op = "checkchain"
    /\ last.ret = FSERROR
    /\ last.chainsize = 1
    /\ UsedBits = tally.chainsize + 1


-----------------------------------------------------------------------------
\* The successor of cl when the scan starts is 1, or lies in
\* [NumClusters, EOFS) and is not BAD.
ScanOffered(cl) ==
    LET n == EntryIn(last.mid.fatbuf, cl)
    IN  \/ n = 1
        \/ (U32Ge(n, boot.NumClusters) /\ U32Lt(n, CLUST_EOFS) /\ n # CLUST_BAD)

\* The answers the oracle gave to the Truncate offer for cl.
ScanAnswers(cl) ==
    {last.asks[i].ans : i \in {j \in 1 .. Len(last.asks) :
        last.asks[j].prompt = "Truncate" /\ last.asks[j].cl = cl}}

\* The bytes of the FAT that hold bits of the entry of cl.
EntryBytes(cl) ==
    CASE boot.ClustMask = CLUST12_MASK ->
           {cl + (cl \div 2), cl + (cl \div 2) + 1}
      [] boot.ClustMask = CLUST16_MASK -> {2 * cl, 2 * cl + 1}
      [] boot.ClustMask = CLUST32_MASK -> (4 * cl) .. (4 * cl + 3)

\* C21: in the scan of readfat with rdonly off the entry of a cluster is
\* changed iff its successor is 1 or lies in [NumClusters, EOFS) without
\* being BAD, and the oracle answers yes to Truncate; it then becomes EOF
\* and the status has FATMOD.  The other entries, entries 0 and 1 and the
\* used bitmap are as they were when the scan started.
C21_ScanFrame ==
    (Scanned /\ ~rdonly) =>
        LET before == last.mid.fatbuf
            after == last.post.fatbuf
            touched == {cl \in ValidClusters(boot) :
                          ScanOffered(cl) /\ TRUE \in ScanAnswers(cl)}
        IN  /\ \A cl \in ValidClusters(boot) :
                  /\ EntryIn(after, cl) # EntryIn(before, cl) <=> cl \in touched
                  /\ cl \in touched => EntryIn(after, cl) = CLUST_EOF
                  /\ ScanAnswers(cl) # {} <=> ScanOffered(cl)
                  /\ (cl \in touched /\ boot.ClustMask = CLUST32_MASK) =>
                        after[4 * cl + 3] \div 16 = before[4 * cl + 3] \div 16
            /\ touched # {} => HasFlag(last.ret, FSFATMOD)
            /\ DOMAIN after = DOMAIN before
            /\ \A i \in DOMAIN after :
                  (\A cl \in touched : i \notin EntryBytes(cl)) =>
                     after[i] = before[i]
            /\ \A i \in SigBytes : after[i] = before[i]
            /\ last.post.used = last.mid.used

\* A FAT12 scan after the leading bytes were corrected: cluster 2 named a
\* reserved value and was truncated, cluster 3 named cluster 1 and the
\* truncation was refused.
C21_Witness ==
    /\ Scanned
    /\ ~rdonly
    /\ boot.ClustMask = CLUST12_MASK
    /\ last.mid.fatbuf # tally.loaded
    /\ EntryIn(last.mid.fatbuf, CLUST_FIRST) = CLUST12_MASK - 9
    /\ ScanAnswers(CLUST_FIRST) = {TRUE}
    /\ EntryIn(fat.fatbuf, CLUST_FIRST) = CLUST_EOF
    /\ EntryIn(last.mid.fatbuf, CLUST_FIRST + 1) = 1
    /\ ScanAnswers(CLUST_FIRST + 1) = {FALSE}
    /\ EntryIn(fat.fatbuf, CLUST_FIRST + 1) = 1


-----------------------------------------------------------------------------
\* C22: checkchain returns for every FAT content, chains that loop back
\* included: a walk whose successor is a cluster already marked used, by
\* this call or an earlier one, ends there with the cross-link offer; the
\* call marks each cluster once; and the loop body runs at most
\* NumClusters - CLUST_FIRST times.
C22_Terminates ==
    last.op = "checkchain" =>
       /\ pc = "dir"
       /\ last.iters <= boot.NumClusters - CLUST_FIRST
       /\ last.iters =
             (Len(LastPath) - 1)
             + (IF fat_is_cl_valid(boot, LastOffender) THEN 1 ELSE 0)
       /\ Cardinality(Range(LastPath)) = Len(LastPath)
       /\ Range(LastPath) \cap last.pre.used = {}
       /\ last.post.used = last.pre.used \cup Range(LastPath)
       /\ fat_is_cl_valid(boot, LastOffender) =>
             /\ LastOffender \in last.pre.used \cup Range(LastPath)
             /\ last.cur = LastEnd
             /\ last.next = LastOffender
             /\ Len(last.asks) = 1
             /\ last.asks[1].prompt = "Truncate"
             /\ last.asks[1].cl = LastEnd
             /\ last.ret \in {FSFATMOD, FSERROR}

\* A chain through every valid cluster that loops back onto its second
\* cluster: the body ran once per cluster and the call stopped where the
\* walk re-entered.
C22_Witness ==
    /\ last.op = "checkchain"
    /\ pc = "dir"
    /\ boot.NumClusters = MaxClusters
    /\ Range(LastPath) = ValidClusters(boot)
    /\ LastOffender = LastPath[2]
    /\ last.iters = boot.NumClusters - CLUST_FIRST


-----------------------------------------------------------------------------
\* bitmap_set and bitmap_clear move count with every call, the map only
\* when the bit changes: count and the bits of the map agree as long as no
\* bit was set when set or cleared when clear.  The head bitmap is built
\* with count = bits and the padding of its last word set.
UsedSound ==
    fat.usedbitmap.count = Cardinality(fat.usedbitmap.map)

HeadSound ==
    fat.headbitmap.count =
       Cardinality(fat.headbitmap.map)
       - (roundup2(boot.NumClusters, LONG_BIT) - boot.NumClusters)

\* C23: in a run of readfat, checkchain calls on valid clusters whose head
\* bit is set, and checklost with the clearchain calls it makes, whatever
\* the oracle answers, no assertion fails: no bit is set when set nor
\* cleared when clear, and every call of checkchain, those of checklost
\* included, is on a valid cluster with its head bit set and its used bit
\* clear.  checklost ends by releasing the used bitmap.
C23_NoAssert ==
    /\ pc # "abort"
    /\ last.op # "assert"
    /\ pc \in {"dir", "lost", "hang"} => UsedSound
    /\ pc \in {"dir", "lost", "done", "hang"} => HeadSound
    /\ (pc \in {"lost", "done", "hang"} /\ last.op = "checkchain") =>
          /\ last.head \in ValidClusters(boot)
          /\ last.head \in last.pre.head
          /\ last.head \notin last.pre.used

\* checklost has returned after checking a chain whose last cluster names
\* a cluster that another entry names too.
C23_Witness ==
    /\ pc = "done"
    /\ Len(sweep.calls) >= 1
    /\ \E c1, c2 \in ValidClusters(boot) :
          /\ c1 # c2
          /\ EntryIn(tally.loaded, c1) = EntryIn(tally.loaded, c2)
          /\ fat_is_cl_valid(boot, EntryIn(tally.loaded, c1))
    /\ Cardinality(last.pre.used) >= 2


-----------------------------------------------------------------------------
\* The valid clusters whose entry in buf decodes to FREE.
FreeIn(buf) ==
    {cl \in ValidClusters(boot) : EntryIn(buf, cl) = CLUST_FREE}

\* checklost has reached the tests of the FSInfo block: last holds the
\* buffer and the value of NumFree found there.
AtFSInfo ==
    pc = "done" /\ last.op = "checklost" /\ boot.bpbFSInfo # 0

\* C24: when checklost compares the free count of the FSInfo block,
\* NumFree is the number of valid clusters whose entry decodes to FREE in
\* the buffer, whatever truncations of the scan and of checkchain and
\* whatever clearchain calls came before.  clearchain counts a cluster
\* free whether or not its entry was stored.
C24_AsStated ==
    AtFSInfo => last.prefree = Cardinality(FreeIn(last.pre.fatbuf))


-----------------------------------------------------------------------------
\* checklost has returned: last holds the descriptor as the sweep left it.
Swept == pc = "done" /\ last.op = "checklost"

\* The valid clusters whose entry in buf is neither FREE nor BAD.
Allocated(buf) ==
    {cl \in ValidClusters(boot) :
        EntryIn(buf, cl) \notin {CLUST_FREE, CLUST_BAD}}

\* C25: with rdonly off, every Truncate offer accepted and reconnect not
\* failing fatally, after readfat, the checkchain calls of the directory
\* traversal and the sweep of checklost, every valid cluster whose entry
\* is neither FREE nor BAD was marked used by exactly one checkchain call,
\* whatever the FAT held.  The clusters of a loop that no chain enters
\* have no head and are never visited.
C25_AsStated ==
    /\ (last.op = "checkchain" /\ ~rdonly) =>
          Range(LastPath) \cap last.pre.used = {}
    /\ (Swept /\ ~rdonly /\ ~HasFlag(last.ret, FSFATAL)) =>
          Allocated(last.pre.fatbuf) \subseteq last.pre.used


-----------------------------------------------------------------------------
\* The clusters passed when the entries of the buffer are followed from
\* head, up to the first successor that is not a valid cluster or was
\* passed already.
PathFrom(head) == WalkPath(fat.fatbuf, {}, <<head>>)

\* C26: with rdonly off, after checkchain calls that each returned OK or
\* FATMOD and no clearchain, following the entries from each head checked
\* gives a finite path that ends at an end of file mark and passes exactly
\* the clusters that call marked used; the paths of two heads share no
\* cluster; and a call leaves the entries of the clusters marked by
\* earlier calls as they were.
C26_Chains ==
    (pc = "dir" /\ ~rdonly /\ tally.errors = 0) =>
        /\ \A r \in tally.chains :
              LET p == PathFrom(r.head)
                  end == EntryIn(fat.fatbuf, p[Len(p)])
              IN  /\ ~fat_is_cl_valid(boot, end)
                  /\ U32Ge(end, CLUST_EOFS)
                  /\ Range(p) = r.marked
        /\ \A r1, r2 \in tally.chains :
              r1.head # r2.head => r1.marked \cap r2.marked = {}
        /\ Cardinality(tally.chains) = tally.calls
        /\ last.op = "checkchain" =>
              \A c \in last.pre.used :
                 EntryIn(last.post.fatbuf, c) = EntryIn(last.pre.fatbuf, c)

\* Two chains that met in one cluster were checked: the first call marked
\* the shared cluster, the second was truncated before it.
C26_Witness ==
    /\ pc = "dir"
    /\ ~rdonly
    /\ tally.errors = 0
    /\ tally.calls = 2
    /\ last.op = "checkchain"
    /\ last.ret = FSFATMOD
    /\ fat_is_cl_valid(boot, LastOffender)
    /\ LastOffender \in last.pre.used
    /\ \E r \in tally.chains : Cardinality(r.marked) >= 2
    /\ EntryIn(fat.fatbuf, LastEnd) = CLUST_EOF

=============================================================================
